---- MODULE Spec2Model ----
(***************************************************************************)
(* A model of the GNU-v2 / ARM / Lucid / HP / EDG symbol demangler of      *)
(* src/src/gnu_v2/cplus-dem.c.                                             *)
(*                                                                         *)
(* Text is a sequence of one-character strings.  A C string is such a      *)
(* sequence followed by an implicit terminator NUL; the bytes that follow  *)
(* the terminator in memory are not determined by the program and are      *)
(* drawn from the variable `beyond`.  Every C function that takes          *)
(* `struct work_stuff *work` and `const char **mangled` is an operator on  *)
(* one record w that holds the fields of work_stuff, the cursor w.m and    *)
(* some ghost fields (oob, badidx, ovf, raw, diverged)  that record what   *)
(* the run did.                                                            *)
(***************************************************************************)
EXTENDS Integers, Sequences, FiniteSets, TLC

VARIABLES
    arg_mangled,  \* the input of the call (without its terminator)
    arg_options,  \* the flags of the call: [params, ansi, java, style]
    beyond,       \* the bytes that follow the input's terminator in memory
    current_demangling_style,  \* the process-wide default dialect
    pc,           \* "idle" | "done" | "freed"
    returned,     \* what cplus_demangle_v2 returned, once pc = "done"
    char_str,     \* static char char_str[2]: the scratch buffer of the file
    thread        \* the calls that run at the same time, each in a thread of its own

vars == <<arg_mangled, arg_options, beyond, current_demangling_style, pc, returned,
          char_str, thread>>

RECURSIVE call(_, _)

(* Characters and C strings *)

NUL == "NUL"
NULLP == <<"NULLP">>      \* the null pointer, where text is expected
NULLV == << <<"NULLV">> >> \* the null pointer, where a vector of texts is expected

Digits == {"0","1","2","3","4","5","6","7","8","9"}
LowerCase == {"a","b","c","d","e","f","g","h","i","j","k","l","m",
              "n","o","p","q","r","s","t","u","v","w","x","y","z"}

isdigit(c) == c \in Digits

DigitVal(c) ==
    CASE c = "0" -> 0 [] c = "1" -> 1 [] c = "2" -> 2 [] c = "3" -> 3
      [] c = "4" -> 4 [] c = "5" -> 5 [] c = "6" -> 6 [] c = "7" -> 7
      [] c = "8" -> 8 [] c = "9" -> 9

DigitChar(d) ==
    CASE d = 0 -> "0" [] d = 1 -> "1" [] d = 2 -> "2" [] d = 3 -> "3"
      [] d = 4 -> "4" [] d = 5 -> "5" [] d = 6 -> "6" [] d = 7 -> "7"
      [] d = 8 -> "8" [] d = 9 -> "9"

\* static char cplus_markers[] = { CPLUS_MARKER, '.', '$', '\0' }
cplus_markers == {"$", "."}

\* strchr (cplus_markers, c) != NULL: strchr also finds the terminator
strchr_markers(c) == c \in cplus_markers \cup {NUL}

\* strchr ("0123456789Qt", c) != NULL
strchr_digitsQt(c) == c \in Digits \cup {"Q", "t", NUL}


(* Bounds of the model *)

\* the number of loop iterations and recursive calls the model follows in one
\* top-level call; a run that needs more is recorded as exhausted
MaxSteps == 120

(* Cursors: a position i (1-based) in a C string s *)

Cursor(s, i) == [s |-> s, i |-> i]

\* the null pointer, where a cursor is expected
NoCursor == Cursor(<<>>, 0)

\* the byte k places after the cursor
Rd(m, k) ==
    LET j == m.i + k IN
    IF j >= 1 /\ j <= Len(m.s) THEN m.s[j]
    ELSE IF j = Len(m.s) + 1 THEN NUL
    ELSE IF j > Len(m.s) + 1 /\ j - Len(m.s) - 1 <= Len(beyond)
         THEN beyond[j - Len(m.s) - 1]
    ELSE NUL

\* is the byte k places after the cursor past the terminator of s ?
Past(m, k) == m.i + k > Len(m.s) + 1

Cur(w) == Rd(w.m, 0)
Peek(w, k) == Rd(w.m, k)

\* the first position from which every read yields the same as from any
\* later one
FarEnd(m) == Len(m.s) + Len(beyond) + 2

\* (*mangled) += k ; a cursor moved beyond FarEnd is kept at FarEnd
Adv(w, k) ==
    [w EXCEPT !.m.i = IF k > FarEnd(w.m) - @ THEN (IF @ > FarEnd(w.m) THEN @ ELSE FarEnd(w.m))
                      ELSE @ + k,
              !.oob = @ \/ k > Len(w.m.s) + 1 - w.m.i]

\* a read of (*mangled)[k]
Touch(w, k) == [w EXCEPT !.oob = @ \/ Past(w.m, k)]

strlen_from(m, k) == IF Rd(m, k) = NUL THEN k ELSE call("strlen_from", <<m, k + 1>>)

\* strlen (*mangled)
strlen(m) == IF m.i <= Len(m.s) + 1 THEN Len(m.s) + 1 - m.i ELSE call("strlen_from", <<m, 0>>)

\* the n bytes at the cursor, as memcpy reads them
Bytes(m, n) == [k \in 1..n |-> Rd(m, k - 1)]

\* a length the code did not compare with strlen, cut at FarEnd
Clamp(m, n) == IF n > FarEnd(m) - m.i THEN (IF m.i > FarEnd(m) THEN 0 ELSE FarEnd(m) - m.i) ELSE n

\* the C string held by a byte array: it ends at the first terminator
CStr(b) == IF b = <<>> \/ Head(b) = NUL THEN <<>> ELSE <<Head(b)>> \o call("CStr", <<Tail(b)>>)

\* the C string at the cursor
Rest(m) == Bytes(m, strlen(m))

\* strncmp (*mangled, lit, Len(lit)) == 0
StartsWith(m, lit) == \A k \in 1..Len(lit) : Rd(m, k - 1) = lit[k]

find_from(m, lit, k) ==
    IF Rd(m, k) = NUL THEN -1
    ELSE IF StartsWith([m EXCEPT !.i = @ + k], lit) THEN k
    ELSE call("find_from", <<m, lit, k + 1>>)

\* mystrstr (p, lit): the offset from the cursor of the first occurrence of
\* lit, or -1
mystrstr(m, lit) == call("find_from", <<m, lit, 0>>)

span_from(m, set, k) == IF Rd(m, k) \in set THEN call("span_from", <<m, set, k + 1>>) ELSE k

\* strspn (p, set): the length of the leading run of bytes of set
strspn(m, set) == call("span_from", <<m, set \ {NUL}, 0>>)

cspan_from(m, set, k) ==
    IF Rd(m, k) = NUL \/ Rd(m, k) \in set THEN k ELSE call("cspan_from", <<m, set, k + 1>>)

\* strcspn (p, set): the length of the leading run of bytes not in set
strcspn(m, set) == call("cspan_from", <<m, set, 0>>)

\* strpbrk (p, set): the offset of the first byte of set, or -1
strpbrk(m, set) ==
    LET k == call("cspan_from", <<m, set, 0>>) IN IF Rd(m, k) = NUL THEN -1 ELSE k

(* The growable text buffer `string`: its content b..p as a sequence *)

string_append(p, s) == IF s = NULLP THEN p ELSE p \o s
string_appends(p, s) == p \o s
string_appendn(p, m, n) == p \o Bytes(m, n)
string_prepend(p, s) == IF s = NULLP THEN p ELSE s \o p
string_prepends(p, s) == s \o p
string_prependn(p, m, n) == Bytes(m, n) \o p
STRING_EMPTY(str) == str = <<>>
LEN_STRING(str) == Len(str)
APPEND_BLANK(str) == IF STRING_EMPTY(str) THEN str ELSE str \o <<" ">>
PREPEND_BLANK(str) == IF STRING_EMPTY(str) THEN str ELSE <<" ">> \o str

(* Options *)

Styles == {"auto", "gnu", "lucid", "arm", "hp", "edg"}

AUTO_DEMANGLING(w) == w.options.style = "auto"
GNU_DEMANGLING(w) == w.options.style = "gnu"
LUCID_DEMANGLING(w) == w.options.style = "lucid"
ARM_DEMANGLING(w) == w.options.style = "arm"
HP_DEMANGLING(w) == w.options.style = "hp"
EDG_DEMANGLING(w) == w.options.style = "edg"
PRINT_ANSI_QUALIFIERS(w) == w.options.ansi
\* PRINT_ARG_TYPES with the test of DMGL_PARAMS left out
PRINT_ARG_TYPES_always(w) == TRUE

PRINT_ARG_TYPES(w) == w.options.params

\* SCOPE_STRING with the test of DMGL_JAVA left out
SCOPE_STRING_cxx(w) == <<":", ":">>

SCOPE_STRING(w) == IF w.options.java THEN <<".">> ELSE <<":", ":">>

(* struct work_stuff, after memset (work, 0, sizeof (work)) *)

work_stuff(opts, s) ==
    [ options |-> opts,
      typevec |-> <<>>,            \* typevec[0 .. ntypes-1]
      ktypevec |-> <<>>,           \* ktypevec[0 .. numk-1]
      btypevec |-> <<>>,           \* btypevec[0 .. numb-1], NULLP when unset
      constructor |-> 0,
      destructor |-> 0,
      static_type |-> 0,
      temp_start |-> 0,
      type_quals |-> 0,
      dllimported |-> 0,
      tmpl_argvec |-> NULLV,       \* NULLV, or the entries filled so far
      ntmpl_args |-> 0,
      forgetting_types |-> 0,
      previous_argument |-> NULLP,
      nrepeats |-> 0,
      m |-> Cursor(s, 1),          \* *mangled
      oob |-> FALSE,               \* a byte past a terminator was addressed
      badidx |-> FALSE,            \* a table was indexed outside [0, length)
      ovf |-> FALSE,               \* a count wrapped around
      raw |-> FALSE,               \* a failed sub-parse was not reported
      cached |-> FALSE,            \* the argument list being read has set previous_argument
      stale |-> FALSE,             \* a repeat replayed the argument of another list
      residue |-> FALSE,           \* the prefix scan started from what a failed gnu_special left
      shrunk |-> FALSE,            \* forget_types emptied a non-empty type table inside demangle_signature
      nested |-> FALSE,            \* demangle_nested_args has returned
      unframed |-> FALSE,          \* a demangle_nested_args returned with another type table, depth, cache or counter
      unrestored |-> FALSE,        \* a thunk's nested decode returned with other pending state than it got
      boundary |-> 0,              \* where demangle_function_name was last given the separator, 0 when never
      yfail |-> FALSE,             \* demangle_template_value_parm returned -1
      hollow |-> FALSE,            \* do_type took the end of input or '_' for a fundamental type
      bare |-> FALSE,              \* demangle_args printed a list of no arguments as "()"
      unnamed |-> FALSE,           \* demangle_qualified echoed an empty last_name as the function name
      overwritten |-> FALSE,       \* demangle_template allocated tmpl_argvec over a vector still held
      replayed |-> FALSE,          \* do_arg has replayed the cached argument
      misargued |-> FALSE,         \* a do_arg left another cursor, cache or type table than its case allows
      noargs |-> FALSE,            \* demangle_template returned 0 for a template declared with 0 arguments
      misfilled |-> FALSE,         \* demangle_template filled its btypevec entry and returned 0
      restyled |-> FALSE,          \* a nested decode ran under another dialect than its caller
      shared |-> FALSE,            \* a nested decode changed the tables of its caller
      char_str0 |-> NUL,           \* the byte last stored in char_str[0], NUL when none was
      live |-> 0,                  \* the repeat-cache objects and template-argument
                                   \* vectors allocated and not yet freed
      left |-> [constructor |-> 0, destructor |-> 0],
                                   \* work->constructor and work->destructor as the
                                   \* last decode left them, before they were restored
      diverged |-> FALSE,          \* a loop repeats an iteration for ever
      fuel |-> MaxSteps,           \* the loop iterations the model still follows
      exhausted |-> FALSE ]        \* the model stopped following the run

\* one loop iteration or recursive call
Tick(w) ==
    IF w.fuel = 0 THEN [w EXCEPT !.exhausted = TRUE] ELSE [w EXCEPT !.fuel = @ - 1]

\* the model follows the run no further
Halted(w) == w.exhausted \/ w.diverged

\* an iteration that went from w0 to w1 changed nothing the next one reads
NoProgress(w0, w1) == [w1 EXCEPT !.fuel = 0] = [w0 EXCEPT !.fuel = 0]

\* a length below 0 reaches memcpy or moves the cursor before the text: the
\* model follows the run no further
Lost(w) == [w EXCEPT !.oob = TRUE, !.exhausted = TRUE]

(* 32-bit arithmetic, in two 16-bit halves *)

Half == 65536
HiOf(n) == (n \div Half) % Half
LoOf(n) == n % Half
ToInt(hi, lo) == IF hi >= 32768 THEN (hi - Half) * Half + lo ELSE hi * Half + lo

\* UT32_MAX / 10 == 6553 * 65536 + 39321
MulOverflows(hi, lo) == hi > 6553 \/ (hi = 6553 /\ lo > 39321)

consume_count_loop(w, hi, lo) ==
    IF ~isdigit(Cur(w)) THEN [w |-> w, n |-> ToInt(hi, lo)]
    ELSE IF MulOverflows(hi, lo) THEN [w |-> w, n |-> -1]
    ELSE LET lo10 == lo * 10
             hi10 == hi * 10 + (lo10 \div Half)
             sum == (lo10 % Half) + DigitVal(Cur(w))
             hi11 == hi10 + (sum \div Half)
         IN IF hi11 >= Half THEN [w |-> w, n |-> -1]
            ELSE call("consume_count_loop", <<Adv(w, 1), hi11, sum % Half>>)

\* consume_count (type): the count at the cursor as an int, or -1
consume_count(w) ==
    IF ~isdigit(Cur(w)) THEN [w |-> w, n |-> -1]
    ELSE call("consume_count_loop", <<w, 0, 0>>)

consume_count_with_underscores(w) ==
    IF Cur(w) = "_"
    THEN LET w1 == Adv(w, 1) IN
         IF ~isdigit(Cur(w1)) THEN [w |-> w1, n |-> -1]
         ELSE LET r == consume_count(w1) IN
              IF Cur(r.w) # "_" THEN [w |-> r.w, n |-> -1]
              ELSE [w |-> Adv(r.w, 1), n |-> r.n]
    ELSE IF ~isdigit(Cur(w)) THEN [w |-> w, n |-> -1]
    ELSE [w |-> Adv(w, 1), n |-> DigitVal(Cur(w))]

\* n * 10 + d in a 32-bit int that wraps around
WrapMul10Add(n, d) ==
    LET lo10 == LoOf(n) * 10 + d
        hi10 == HiOf(n) * 10 + (lo10 \div Half)
    IN [n |-> ToInt(hi10 % Half, lo10 % Half),
        ovf |-> n < 0 \/ hi10 >= 32768]

\* the do-while of get_count: p is the offset from the cursor
get_count_loop(m, p, n, ovf) ==
    LET a == WrapMul10Add(n, DigitVal(Rd(m, p))) IN
    IF isdigit(Rd(m, p + 1)) THEN call("get_count_loop", <<m, p + 1, a.n, ovf \/ a.ovf>>)
    ELSE [p |-> p + 1, n |-> a.n, ovf |-> ovf \/ a.ovf]

\* get_count (type, &count): ok = 0 when the cursor is not at a digit
get_count(w) ==
    IF ~isdigit(Cur(w)) THEN [w |-> w, ok |-> 0, n |-> 0]
    ELSE LET count == DigitVal(Cur(w))
             w1 == Adv(w, 1)
         IN IF isdigit(Cur(w1))
            THEN LET l == call("get_count_loop", <<w1.m, 0, count, FALSE>>) IN
                 IF Rd(w1.m, l.p) = "_"
                 THEN [w |-> [Adv(w1, l.p + 1) EXCEPT !.ovf = @ \/ l.ovf],
                       ok |-> 1, n |-> l.n]
                 ELSE [w |-> w1, ok |-> 1, n |-> count]
            ELSE [w |-> w1, ok |-> 1, n |-> count]

atoi_loop(m, p, n, ovf) ==
    IF ~isdigit(Rd(m, p)) THEN [n |-> n, ovf |-> ovf]
    ELSE LET a == WrapMul10Add(n, DigitVal(Rd(m, p))) IN
         call("atoi_loop", <<m, p + 1, a.n, ovf \/ a.ovf>>)

\* atoi (p), for the digit string at offset p from the cursor
atoi(m, p) == call("atoi_loop", <<m, p, 0, FALSE>>)

DecDigits(n) == IF n < 10 THEN <<DigitChar(n)>>
                ELSE call("DecDigits", <<n \div 10>>) \o <<DigitChar(n % 10)>>

\* snprintf (buf, size, "%d", n)
IntToStr(n) ==
    IF n = (0 - 2147483647) - 1 THEN <<"-","2","1","4","7","4","8","3","6","4","8">>
    ELSE IF n < 0 THEN <<"-">> \o call("DecDigits", <<0 - n>>) ELSE call("DecDigits", <<n>>)

(* Type qualifiers *)

TYPE_UNQUALIFIED == 0
TYPE_QUAL_CONST == 1
TYPE_QUAL_VOLATILE == 2
TYPE_QUAL_RESTRICT == 4

code_for_qualifier(c) ==
    CASE c = "C" -> TYPE_QUAL_CONST
      [] c = "V" -> TYPE_QUAL_VOLATILE
      [] c = "u" -> TYPE_QUAL_RESTRICT
      [] OTHER -> TYPE_UNQUALIFIED

\* type_quals | bit, for a single bit
BitOr(q, bit) == IF bit = 0 \/ (q \div bit) % 2 = 1 THEN q ELSE q + bit

qualifier_string(type_quals) ==
    CASE type_quals = 0 -> <<>>
      [] type_quals = 1 -> <<"c","o","n","s","t">>
      [] type_quals = 2 -> <<"v","o","l","a","t","i","l","e">>
      [] type_quals = 4 -> <<"_","_","r","e","s","t","r","i","c","t">>
      [] type_quals = 3 -> <<"c","o","n","s","t"," ","v","o","l","a","t","i","l","e">>
      [] type_quals = 5 -> <<"c","o","n","s","t"," ","_","_","r","e","s","t","r","i","c","t">>
      [] type_quals = 6 -> <<"v","o","l","a","t","i","l","e"," ","_","_","r","e","s","t","r","i","c","t">>
      [] type_quals = 7 -> <<"c","o","n","s","t"," ","v","o","l","a","t","i","l","e"," ","_","_","r","e","s","t","r","i","c","t">>
      [] OTHER -> <<>>

demangle_qualifier(c) == qualifier_string(code_for_qualifier(c))

(* The grammar.  Each operator returns [w, ok, s]: the context after the
   call, the C return value and the text buffer the call wrote to. *)

Ret(w, ok, s) == [w |-> w, ok |-> ok, s |-> s]

\* type_kind_t
tk_none == 0
tk_pointer == 1
tk_reference == 2
tk_integral == 3
tk_bool == 4
tk_char == 5
tk_real == 6


(* Back-reference tables *)

\* remember_type without the test of forgetting_types
remember_type_unguarded(w, start, len) ==
    [w EXCEPT !.typevec = Append(@, call("CStr", <<Bytes(start, len)>>))]

remember_type(w, start, len) ==
    IF w.forgetting_types # 0 THEN w
    ELSE [w EXCEPT !.typevec = Append(@, call("CStr", <<Bytes(start, len)>>))]

remember_Ktype(w, str) == [w EXCEPT !.ktypevec = Append(@, call("CStr", <<str>>))]

\* register_Btype returns the index work->numb++ ; the entry is NULL
register_Btype(w) == [w EXCEPT !.btypevec = Append(@, NULLP)]

\* the index register_Btype (w) returned
registered_index(w) == Len(w.btypevec)

\* index is 0-based
remember_Btype(w, str, index) ==
    IF index + 1 \in DOMAIN w.btypevec
    THEN [w EXCEPT !.btypevec[index + 1] = call("CStr", <<str>>)]
    ELSE [w EXCEPT !.badidx = TRUE]

forget_types(w) == [w EXCEPT !.typevec = <<>>]

\* the back-reference state of a context: the type table, the two squangling
\* tables, the template arguments and the repeat cache
Tables(w) == <<w.typevec, w.ktypevec, w.btypevec, w.tmpl_argvec, w.previous_argument>>

\* the pending state internal_cplus_demangle saves in s1..s4
Pending(w) == <<w.constructor, w.destructor, w.static_type, w.type_quals>>

\* the pending state of a context after memset (work, 0, sizeof (work))
PendingZero == <<0, 0, 0, TYPE_UNQUALIFIED>>

forget_B_and_K_types(w) == [w EXCEPT !.ktypevec = <<>>, !.btypevec = <<>>]

\* vec[idx] for a 0-based idx the code has compared against the length
\* (or not): outside the table the read yields whatever memory holds
TableAt(vec, idx) ==
    IF idx >= 0 /\ idx < Len(vec) THEN vec[idx + 1] ELSE call("CStr", <<beyond>>)

Indexed(w, vec, idx) ==
    IF idx >= 0 /\ idx < Len(vec) THEN w ELSE [w EXCEPT !.badidx = TRUE]

(* sscanf (buf, "%x", &dec) *)

HexVal(c) ==
    CASE c \in Digits -> DigitVal(c)
      [] c \in {"a", "A"} -> 10 [] c \in {"b", "B"} -> 11
      [] c \in {"c", "C"} -> 12 [] c \in {"d", "D"} -> 13
      [] c \in {"e", "E"} -> 14 [] c \in {"f", "F"} -> 15
      [] OTHER -> -1

\* the value of the leading hexadecimal digits of buf from index k, as the
\* 32-bit object that receives it
hex_loop(buf, k, n) ==
    IF k > Len(buf) \/ HexVal(buf[k]) < 0 THEN n
    ELSE LET lo16 == LoOf(n) * 16 + HexVal(buf[k])
             hi16 == HiOf(n) * 16 + (lo16 \div Half)
         IN call("hex_loop", <<buf, k + 1, ToInt(hi16 % Half, lo16 % Half)>>)

sscanf_x(buf) ==
    LET neg == buf # <<>> /\ buf[1] = "-"
        k0 == IF buf # <<>> /\ buf[1] \in {"-", "+"} THEN 2 ELSE 1
        k1 == IF k0 + 1 <= Len(buf) /\ buf[k0] = "0" /\ buf[k0 + 1] \in {"x", "X"}
                 /\ k0 + 2 <= Len(buf) /\ HexVal(buf[k0 + 2]) >= 0
              THEN k0 + 2 ELSE k0
        v == call("hex_loop", <<buf, k1, 0>>)
    IN IF neg /\ v > -2147483647 THEN 0 - v ELSE v

(* demangle_fund_type *)

Lit_unsigned == <<"u","n","s","i","g","n","e","d">>
Lit_signed == <<"s","i","g","n","e","d">>
Lit_complex == <<"_","_","c","o","m","p","l","e","x">>
Lit_void == <<"v","o","i","d">>
Lit_int == <<"i","n","t">>

FundName(c) ==
    CASE c = "v" -> Lit_void
      [] c = "x" -> <<"l","o","n","g"," ","l","o","n","g">>
      [] c = "l" -> <<"l","o","n","g">>
      [] c = "i" -> Lit_int
      [] c = "s" -> <<"s","h","o","r","t">>
      [] c = "b" -> <<"b","o","o","l">>
      [] c = "c" -> <<"c","h","a","r">>
      [] c = "w" -> <<"w","c","h","a","r","_","t">>
      [] c = "r" -> <<"l","o","n","g"," ","d","o","u","b","l","e">>
      [] c = "d" -> <<"d","o","u","b","l","e">>
      [] c = "f" -> <<"f","l","o","a","t">>

FundKind(c) ==
    CASE c = "b" -> tk_bool
      [] c \in {"c", "w"} -> tk_char
      [] c \in {"r", "d", "f"} -> tk_real
      [] OTHER -> tk_integral

FundLetters == {"v", "x", "l", "i", "s", "b", "c", "w", "r", "d", "f"}

\* the qualifier loop of demangle_fund_type
fund_quals(w, result) ==
    LET c == Cur(w) IN
    CASE c \in {"C", "V", "u"} ->
           call("fund_quals", <<Adv(w, 1),
                      IF PRINT_ANSI_QUALIFIERS(w)
                      THEN string_prepend(PREPEND_BLANK(result), demangle_qualifier(c))
                      ELSE result>>)
      [] c = "U" -> call("fund_quals", <<Adv(w, 1), string_append(APPEND_BLANK(result), Lit_unsigned)>>)
      [] c = "S" -> call("fund_quals", <<Adv(w, 1), string_append(APPEND_BLANK(result), Lit_signed)>>)
      [] c = "J" -> call("fund_quals", <<Adv(w, 1), string_append(APPEND_BLANK(result), Lit_complex)>>)
      [] OTHER -> Ret(w, 1, result)

\* for (i = 0; i < sizeof (buf) - 1 && **mangled && **mangled != '_'; ...)
int_width_buf(w, buf) ==
    IF Len(buf) < 9 /\ Cur(w) # NUL /\ Cur(w) # "_"
    THEN call("int_width_buf", <<Adv(w, 1), Append(buf, Cur(w))>>)
    ELSE Ret(w, 1, buf)

\* case 'I' of demangle_fund_type, entered at its (*mangled)++
fund_int_width(w, result) ==
    LET w1 == Adv(w, 1)
        b == IF Cur(w1) = "_" THEN call("int_width_buf", <<Adv(w1, 1), <<>>>>)
             ELSE LET k == IF strlen(w1.m) < 2 THEN strlen(w1.m) ELSE 2 IN
                  Ret(Adv(w1, k), 1, call("CStr", <<Bytes(w1.m, 2)>>))
    IN IF Cur(w1) = "_" /\ Cur(b.w) # "_" THEN Ret(b.w, 0, result)
       ELSE LET w2 == IF Cur(w1) = "_" THEN Adv(b.w, 1) ELSE b.w
                dec == call("sscanf_x", <<b.s>>)
            IN IF dec > 64 \/ dec < 8 THEN Ret(w2, 0, result)
               ELSE Ret(w2, tk_integral,
                        string_append(APPEND_BLANK(result),
                                      Lit_int \o IntToStr(dec) \o <<"_", "t">>))

demangle_fund_type(w0, result0) ==
    LET q == call("fund_quals", <<w0, result0>>)
        w == q.w
        result == q.s
        c == Cur(w)
    IN
    CASE c \in {NUL, "_"} -> Ret(w, tk_integral, result)
      [] c \in FundLetters ->
           Ret(Adv(w, 1), FundKind(c), string_append(APPEND_BLANK(result), FundName(c)))
      [] c = "G" ->
           LET w1 == Adv(w, 1) IN
           IF ~isdigit(Cur(w1)) THEN Ret(w1, 0, result)
           ELSE call("fund_int_width", <<w1, result>>)
      [] c = "I" -> call("fund_int_width", <<w, result>>)
      [] c \in Digits ->
           LET w1 == register_Btype(w)
               bindex == registered_index(w1) - 1
               cn == call("demangle_class_name", <<w1, <<>>>>)
           IN IF cn.ok # 0
              THEN Ret(remember_Btype(cn.w, cn.s, bindex), tk_integral,
                       string_appends(APPEND_BLANK(result), cn.s))
              ELSE Ret(cn.w, 0, result)
      [] c = "t" ->
           LET t == call("demangle_template", <<w, <<>>, NULLP, 1, 1>>) IN
           Ret(t.w, IF t.ok # 0 THEN tk_integral ELSE 0, string_appends(result, t.s))
      [] OTHER -> Ret(w, 0, result)

(* do_type *)

\* work->tmpl_argvec[idx], for an idx the code found below ntmpl_args
TmplAt(w, idx) ==
    IF idx < 0 THEN call("CStr", <<beyond>>)
    ELSE IF idx < Len(w.tmpl_argvec) THEN w.tmpl_argvec[idx + 1]
    ELSE NULLP

TmplIndexed(w, idx) == IF idx < 0 THEN [w EXCEPT !.badidx = TRUE] ELSE w

\* snprintf (buf, sizeof (buf), "T%d", idx) with char buf[10]
TmplPlaceholder(idx) ==
    LET full == <<"T">> \o IntToStr(idx) IN
    IF Len(full) > 9 THEN SubSeq(full, 1, 9) ELSE full

\* the template-parameter reference after 'X' / 'Y' (or 'z' + a byte), the
\* cursor being at its index: ok = 0 when the reference is rejected
template_parm_ref(w) ==
    LET a == call("consume_count_with_underscores", <<w>>)
        inRange == ~(w.tmpl_argvec # NULLV /\ a.n >= w.ntmpl_args)
        b == IF a.n = -1 \/ ~inRange THEN a ELSE call("consume_count_with_underscores", <<a.w>>)
    IN IF a.n = -1 \/ ~inRange \/ b.n = -1 THEN Ret(b.w, 0, <<>>)
       ELSE IF w.tmpl_argvec # NULLV
            THEN Ret(TmplIndexed(b.w, a.n), 1, TmplAt(w, a.n))
            ELSE Ret(b.w, 1, TmplPlaceholder(a.n))

\* parenthesize a pointer or reference declarator
ParenPtr(decl) ==
    IF ~STRING_EMPTY(decl) /\ decl[1] \in {"*", "&"}
    THEN <<"(">> \o decl \o <<")">> ELSE decl

\* the result of the declarator loop: home is the caller's cursor once a
\* 'T' back-reference has redirected the local one, else NoCursor
Decl(w, ok, decl, tk, home) == [w |-> w, ok |-> ok, s |-> decl, tk |-> tk, home |-> home]

\* case 'M' of do_type
do_type_member(w0, decl0) ==
    LET w == Adv(w0, 1)
        decl == string_prepend(string_append(decl0, <<")">>), SCOPE_STRING(w))
        c == Cur(w)
        \* the class of the member: a count, X/Y, or a template
        cls ==
          CASE isdigit(c) ->
                 LET n == consume_count(w) IN
                 IF n.n = -1 \/ strlen(n.w.m) < n.n THEN Ret(n.w, 0, decl)
                 ELSE Ret(Adv(n.w, n.n), 1, string_prependn(decl, n.w.m, n.n))
            [] c \in {"X", "Y"} ->
                 LET t == call("do_type", <<w>>) IN
                 Ret(IF t.ok = 0 THEN [t.w EXCEPT !.raw = TRUE] ELSE t.w, 1,
                     string_prepends(decl, t.s))
            [] c = "t" ->
                 LET t == call("demangle_template", <<w, <<>>, NULLP, 1, 1>>) IN
                 IF t.ok # 0 THEN Ret(t.w, 1, string_prepends(decl, t.s))
                 ELSE Ret(t.w, 0, decl)
            [] OTHER -> Ret(w, 0, decl)
    IN IF cls.ok = 0 THEN cls
       ELSE
       LET decl1 == string_prepend(cls.s, <<"(">>)
           hasq == Cur(cls.w) \in {"C", "V", "u"}
           type_quals == IF hasq THEN code_for_qualifier(Cur(cls.w)) ELSE TYPE_UNQUALIFIED
           w1 == IF hasq THEN Adv(cls.w, 1) ELSE cls.w
           isF == Cur(w1) = "F"
           w2 == Adv(w1, 1)       \* *(*mangled)++ != 'F'
       IN IF ~isF THEN Ret(w2, 0, decl1)
          ELSE LET na == call("demangle_nested_args", <<w2, decl1>>) IN
               IF na.ok = 0 \/ Cur(na.w) # "_" THEN Ret(na.w, 0, na.s)
               ELSE LET w3 == Adv(na.w, 1) IN
                    IF ~PRINT_ANSI_QUALIFIERS(w3) \/ type_quals = TYPE_UNQUALIFIED
                    THEN Ret(w3, 1, na.s)
                    ELSE Ret(w3, 1, string_append(APPEND_BLANK(na.s),
                                                  qualifier_string(type_quals)))

\* while (success && !done) switch (**mangled) ...
do_type_loop(w0, decl, tk, home) ==
    LET w == Tick(w0)
        c == Cur(w)
    IN
    IF Halted(w) THEN Decl(w, 0, decl, tk, home)
    ELSE
    CASE c \in {"P", "p"} ->
           call("do_type_loop", <<Adv(w, 1),
                        IF w.options.java THEN decl ELSE string_prepend(decl, <<"*">>),
                        IF tk = tk_none THEN tk_pointer ELSE tk, home>>)
      [] c = "R" ->
           call("do_type_loop", <<Adv(w, 1), string_prepend(decl, <<"&">>),
                        IF tk = tk_none THEN tk_reference ELSE tk, home>>)
      [] c = "A" ->
           LET w1 == Adv(w, 1)
               d1 == string_append(ParenPtr(decl), <<"[">>)
               v == IF Cur(w1) # "_"
                    THEN call("demangle_template_value_parm", <<w1, d1, tk_integral>>)
                    ELSE Ret(w1, 1, d1)
               w2 == IF Cur(v.w) = "_" THEN Adv(v.w, 1) ELSE v.w
               d2 == string_append(v.s, <<"]">>)
           IN IF v.ok = 0 THEN Decl(w2, 0, d2, tk, home)
              ELSE call("do_type_loop", <<w2, d2, tk, home>>)
      [] c = "T" ->
           LET g == call("get_count", <<Adv(w, 1)>>) IN
           IF g.ok = 0 \/ g.n >= Len(g.w.typevec) THEN Decl(g.w, 0, decl, tk, home)
           ELSE call("do_type_loop", <<
                  [Indexed(g.w, g.w.typevec, g.n)
                     EXCEPT !.m = Cursor(TableAt(g.w.typevec, g.n), 1)],
                  decl, tk, IF home = NoCursor THEN g.w.m ELSE home>>)
      [] c = "F" ->
           LET na == call("demangle_nested_args", <<Adv(w, 1), ParenPtr(decl)>>) IN
           IF na.ok = 0 \/ Cur(na.w) \notin {"_", NUL} THEN Decl(na.w, 0, na.s, tk, home)
           ELSE call("do_type_loop", <<IF Cur(na.w) = "_" THEN Adv(na.w, 1) ELSE na.w,
                             na.s, tk, home>>)
      [] c = "O" ->
           call("do_type_loop", <<Adv(w, 1), string_prepend(decl, <<"&", "&">>),
                        IF tk = tk_none THEN tk_reference ELSE tk, home>>)
      [] c = "M" ->
           LET mr == call("do_type_member", <<w, decl>>) IN
           IF mr.ok = 0 THEN Decl(mr.w, 0, mr.s, tk, home)
           ELSE call("do_type_loop", <<mr.w, mr.s, tk, home>>)
      [] c = "G" -> call("do_type_loop", <<Adv(w, 1), decl, tk, home>>)
      [] c \in {"C", "V", "u"} ->
           call("do_type_loop", <<Adv(w, 1),
                        IF PRINT_ANSI_QUALIFIERS(w)
                        THEN string_prepend(PREPEND_BLANK(decl), demangle_qualifier(c))
                        ELSE decl,
                        tk, home>>)
      [] OTHER -> Decl(w, 1, decl, tk, home)

\* the terminal production of do_type
do_type_terminal(w, tk) ==
    LET c == Cur(w) IN
    CASE c \in {"Q", "K"} ->
           LET q == call("demangle_qualified", <<w, <<>>, 0, 1>>) IN
           [w |-> q.w, ok |-> q.ok, s |-> q.s, tk |-> tk]
      [] c = "B" ->
           LET g == call("get_count", <<Adv(w, 1)>>) IN
           IF g.ok = 0 \/ g.n >= Len(g.w.btypevec)
           THEN [w |-> g.w, ok |-> 0, s |-> <<>>, tk |-> tk]
           ELSE [w |-> Indexed(g.w, g.w.btypevec, g.n), ok |-> 1,
                 s |-> string_append(<<>>, TableAt(g.w.btypevec, g.n)), tk |-> tk]
      [] c \in {"X", "Y"} ->
           LET r == call("template_parm_ref", <<Adv(w, 1)>>) IN
           [w |-> r.w, ok |-> r.ok, s |-> string_append(<<>>, r.s), tk |-> tk]
      [] OTHER ->
           LET f == call("demangle_fund_type", <<w, <<>>>>) IN
           [w |-> [f.w EXCEPT !.hollow = @ \/ (f.ok # 0 /\ f.s = <<>>)],
            ok |-> f.ok, s |-> f.s, tk |-> IF tk = tk_none THEN f.ok ELSE tk]

do_type(w0) ==
    LET l == call("do_type_loop", <<w0, <<>>, tk_none, NoCursor>>)
        t == IF l.ok # 0 THEN call("do_type_terminal", <<l.w, l.tk>>)
             ELSE [w |-> l.w, ok |-> 0, s |-> <<>>, tk |-> l.tk]
        \* the caller's cursor does not follow a redirected one
        w == IF l.home = NoCursor THEN t.w ELSE [t.w EXCEPT !.m = l.home]
    IN IF t.ok # 0
       THEN Ret(w, IF t.tk = tk_none THEN tk_integral ELSE t.tk,
                IF STRING_EMPTY(l.s) THEN t.s ELSE t.s \o <<" ">> \o l.s)
       ELSE Ret(w, 0, <<>>)

(* do_arg, demangle_args, demangle_nested_args *)

\* do_arg with a replay that is recorded in the type table like a parsed
\* argument
do_arg_replay_remembered(w0) ==
    LET start == w0.m IN
    IF w0.nrepeats > 0
    THEN LET w == remember_type_unguarded([w0 EXCEPT !.nrepeats = @ - 1], start, 0) IN
         IF w.previous_argument = NULLP THEN Ret(w, 0, <<>>)
         ELSE Ret([w EXCEPT !.stale = @ \/ ~w.cached,
                            !.replayed = TRUE,
                            !.misargued = @ \/ w.m # w0.m \/ w.typevec # w0.typevec
                                            \/ w.previous_argument # w0.previous_argument],
                  1, string_appends(<<>>, w.previous_argument))
    ELSE IF Cur(w0) = "n"
    THEN LET c == consume_count(Adv(w0, 1))
             w == [c.w EXCEPT !.nrepeats = c.n]
         IN IF w.nrepeats <= 0 THEN Ret(w, 0, <<>>)
            ELSE IF w.nrepeats > 9
                 THEN IF Cur(w) # "_" THEN Ret(w, 0, <<>>) ELSE call("do_arg", <<Adv(w, 1)>>)
                 ELSE call("do_arg", <<w>>)
    ELSE LET t == call("do_type", <<[w0 EXCEPT !.previous_argument = <<>>,
                                               !.live = IF w0.previous_argument = NULLP
                                                        THEN @ + 1 ELSE @]>>)
             x == remember_type([t.w EXCEPT !.previous_argument = t.s, !.cached = TRUE],
                                start, t.w.m.i - start.i)
         IN
         IF t.ok = 0 THEN Ret(t.w, 0, <<>>)
         ELSE Ret(x, 1, string_appends(<<>>, t.s))

do_arg(w0) ==
    LET start == w0.m IN
    IF w0.nrepeats > 0
    THEN LET w == [w0 EXCEPT !.nrepeats = @ - 1] IN
         IF w.previous_argument = NULLP THEN Ret(w, 0, <<>>)
         ELSE Ret([w EXCEPT !.stale = @ \/ ~w.cached,
                            !.replayed = TRUE,
                            !.misargued = @ \/ w.m # w0.m \/ w.typevec # w0.typevec
                                            \/ w.previous_argument # w0.previous_argument],
                  1, string_appends(<<>>, w.previous_argument))
    ELSE IF Cur(w0) = "n"
    THEN LET c == consume_count(Adv(w0, 1))
             w == [c.w EXCEPT !.nrepeats = c.n]
         IN IF w.nrepeats <= 0 THEN Ret(w, 0, <<>>)
            ELSE IF w.nrepeats > 9
                 THEN IF Cur(w) # "_" THEN Ret(w, 0, <<>>) ELSE call("do_arg", <<Adv(w, 1)>>)
                 ELSE call("do_arg", <<w>>)
    ELSE LET t == call("do_type", <<[w0 EXCEPT !.previous_argument = <<>>,
                                               !.live = IF w0.previous_argument = NULLP
                                                        THEN @ + 1 ELSE @]>>)
             x == remember_type([t.w EXCEPT !.previous_argument = t.s, !.cached = TRUE],
                                start, t.w.m.i - start.i)
         IN
         IF t.ok = 0 THEN Ret(t.w, 0, <<>>)
         ELSE Ret([x EXCEPT !.misargued =
                               @ \/ x.previous_argument # t.s
                                 \/ Len(x.typevec) # Len(w0.typevec)
                                                      + (IF w0.forgetting_types = 0 THEN 1 ELSE 0)
                                 \/ SubSeq(x.typevec, 1, Len(w0.typevec)) # w0.typevec],
                  1, string_appends(<<>>, t.s))

\* string_append (declp, ", ") when need_comma && PRINT_ARG_TYPES
Comma(w, declp, need_comma) ==
    IF need_comma /\ PRINT_ARG_TYPES(w) THEN string_append(declp, <<",", " ">>) ELSE declp

\* string_appends (declp, &arg) when PRINT_ARG_TYPES
AppendArg(w, declp, arg) == IF PRINT_ARG_TYPES(w) THEN string_appends(declp, arg) ELSE declp

Args(w, ok, declp, need_comma) ==
    [w |-> w, ok |-> ok, s |-> declp, need_comma |-> need_comma]

\* while (work->nrepeats > 0 || --r >= 0): replay typevec[t]
demangle_args_repeat(w0, declp, need_comma, r, t) ==
    LET w == Tick(w0)
        r1 == IF w.nrepeats > 0 THEN r ELSE r - 1
    IN
    IF Halted(w) THEN Args(w, 0, declp, need_comma)
    ELSE IF ~(w.nrepeats > 0 \/ r1 >= 0) THEN Args(w, 1, declp, need_comma)
    ELSE LET home == w.m
             a == call("do_arg", <<[w EXCEPT !.m = Cursor(TableAt(w.typevec, t), 1)]>>)
             d1 == Comma(w, declp, need_comma)
             w1 == [a.w EXCEPT !.m = home]
         IN IF a.ok = 0 THEN Args(w1, 0, d1, need_comma)
            ELSE call("demangle_args_repeat", <<w1, AppendArg(w, d1, a.s), TRUE, r1, t>>)

demangle_args_loop(w0, declp, need_comma) ==
    LET w == Tick(w0)
        c == Cur(w)
    IN
    IF Halted(w) THEN Args(w, 0, declp, need_comma)
    ELSE IF ~(c \notin {"_", NUL, "e"} \/ w.nrepeats > 0) THEN Args(w, 1, declp, need_comma)
    ELSE IF c \in {"N", "T"}
    THEN LET w1 == Adv(w, 1)
             rc == IF c = "N" THEN call("get_count", <<w1>>) ELSE [w |-> w1, ok |-> 1, n |-> 1]
             whole == (HP_DEMANGLING(w) \/ ARM_DEMANGLING(w) \/ EDG_DEMANGLING(w))
                      /\ Len(w.typevec) >= 10
             cc == consume_count(rc.w)
             gc == call("get_count", <<rc.w>>)
             tw == IF whole THEN cc.w ELSE gc.w
             tok == IF whole THEN cc.n > 0 ELSE gc.ok # 0
             t0 == IF whole THEN cc.n ELSE gc.n
             t == IF LUCID_DEMANGLING(w) \/ ARM_DEMANGLING(w) \/ HP_DEMANGLING(w)
                     \/ EDG_DEMANGLING(w)
                  THEN t0 - 1 ELSE t0
         IN IF rc.ok = 0 THEN Args(rc.w, 0, declp, need_comma)
            ELSE IF ~tok THEN Args(tw, 0, declp, need_comma)
            ELSE IF t < 0 \/ t >= Len(tw.typevec) THEN Args(tw, 0, declp, need_comma)
            ELSE LET rp == call("demangle_args_repeat", <<tw, declp, need_comma, rc.n, t>>) IN
                 IF rp.ok = 0 THEN rp
                 ELSE call("demangle_args_loop", <<rp.w, rp.s, rp.need_comma>>)
    ELSE LET d1 == Comma(w, declp, need_comma)
             a == call("do_arg", <<w>>)
         IN IF a.ok = 0 THEN Args(a.w, 0, d1, need_comma)
            ELSE call("demangle_args_loop", <<a.w, AppendArg(w, d1, a.s), TRUE>>)

Lit_ellipsis == <<".", ".", ".">>

\* demangle_args with the comma before the ellipsis left out
demangle_args_no_comma(w, declp0) ==
    LET d0 == IF PRINT_ARG_TYPES(w)
              THEN string_append(string_append(declp0, <<"(">>),
                                 IF Cur(w) = NUL THEN Lit_void ELSE <<>>)
              ELSE declp0
        l == call("demangle_args_loop", <<[w EXCEPT !.cached = FALSE], d0, FALSE>>)
    IN IF l.ok = 0 THEN Ret(l.w, 0, l.s)
       ELSE LET isE == Cur(l.w) = "e"
                w1 == IF isE THEN Adv(l.w, 1) ELSE l.w
                d1 == IF isE /\ PRINT_ARG_TYPES(w)
                      THEN string_append(l.s, Lit_ellipsis)
                      ELSE l.s
            IN Ret(w1, 1, IF PRINT_ARG_TYPES(w) THEN string_append(d1, <<")">>) ELSE d1)

demangle_args(w, declp0) ==
    LET d0 == IF PRINT_ARG_TYPES(w)
              THEN string_append(string_append(declp0, <<"(">>),
                                 IF Cur(w) = NUL THEN Lit_void ELSE <<>>)
              ELSE declp0
        l == call("demangle_args_loop", <<[w EXCEPT !.cached = FALSE], d0, FALSE>>)
    IN IF l.ok = 0 THEN Ret(l.w, 0, l.s)
       ELSE LET isE == Cur(l.w) = "e"
                w0 == [l.w EXCEPT !.bare = @ \/ (PRINT_ARG_TYPES(w) /\ ~l.need_comma /\ ~isE
                                                 /\ Cur(w) # NUL)]
                w1 == IF isE THEN Adv(w0, 1) ELSE w0
                d1 == IF isE /\ PRINT_ARG_TYPES(w)
                      THEN string_append(
                             IF l.need_comma THEN string_append(l.s, <<",">>) ELSE l.s,
                             Lit_ellipsis)
                      ELSE l.s
            IN Ret(w1, 1, IF PRINT_ARG_TYPES(w) THEN string_append(d1, <<")">>) ELSE d1)

demangle_nested_args(w, declp) ==
    LET e == [w EXCEPT !.forgetting_types = @ + 1,
                       !.previous_argument = NULLP,
                       !.nrepeats = 0]
        r == call("demangle_args", <<e, declp>>)
        x == [r.w EXCEPT !.previous_argument = w.previous_argument,
                         !.cached = w.cached,
                         !.forgetting_types = @ - 1,
                         !.nrepeats = w.nrepeats]
    IN Ret([x EXCEPT !.nested = TRUE,
                     !.unframed = @ \/ x.typevec # w.typevec
                                    \/ e.previous_argument # NULLP \/ e.nrepeats # 0
                                    \/ x.forgetting_types # w.forgetting_types
                                    \/ x.previous_argument # w.previous_argument
                                    \/ x.nrepeats # w.nrepeats],
           r.ok, r.s)

(* static const struct optable optable[] *)

optable ==
    <<
      [in |-> <<"n","w">>, out |-> <<" ","n","e","w">>, ansi |-> TRUE],
      [in |-> <<"d","l">>, out |-> <<" ","d","e","l","e","t","e">>, ansi |-> TRUE],
      [in |-> <<"n","e","w">>, out |-> <<" ","n","e","w">>, ansi |-> FALSE],
      [in |-> <<"d","e","l","e","t","e">>, out |-> <<" ","d","e","l","e","t","e">>, ansi |-> FALSE],
      [in |-> <<"v","n">>, out |-> <<" ","n","e","w"," ","[","]">>, ansi |-> TRUE],
      [in |-> <<"v","d">>, out |-> <<" ","d","e","l","e","t","e"," ","[","]">>, ansi |-> TRUE],
      [in |-> <<"a","s">>, out |-> <<"=">>, ansi |-> TRUE],
      [in |-> <<"n","e">>, out |-> <<"!","=">>, ansi |-> TRUE],
      [in |-> <<"e","q">>, out |-> <<"=","=">>, ansi |-> TRUE],
      [in |-> <<"g","e">>, out |-> <<">","=">>, ansi |-> TRUE],
      [in |-> <<"g","t">>, out |-> <<">">>, ansi |-> TRUE],
      [in |-> <<"l","e">>, out |-> <<"<","=">>, ansi |-> TRUE],
      [in |-> <<"l","t">>, out |-> <<"<">>, ansi |-> TRUE],
      [in |-> <<"p","l","u","s">>, out |-> <<"+">>, ansi |-> FALSE],
      [in |-> <<"p","l">>, out |-> <<"+">>, ansi |-> TRUE],
      [in |-> <<"a","p","l">>, out |-> <<"+","=">>, ansi |-> TRUE],
      [in |-> <<"m","i","n","u","s">>, out |-> <<"-">>, ansi |-> FALSE],
      [in |-> <<"m","i">>, out |-> <<"-">>, ansi |-> TRUE],
      [in |-> <<"a","m","i">>, out |-> <<"-","=">>, ansi |-> TRUE],
      [in |-> <<"m","u","l","t">>, out |-> <<"*">>, ansi |-> FALSE],
      [in |-> <<"m","l">>, out |-> <<"*">>, ansi |-> TRUE],
      [in |-> <<"a","m","u">>, out |-> <<"*","=">>, ansi |-> TRUE],
      [in |-> <<"a","m","l">>, out |-> <<"*","=">>, ansi |-> TRUE],
      [in |-> <<"c","o","n","v","e","r","t">>, out |-> <<"+">>, ansi |-> FALSE],
      [in |-> <<"n","e","g","a","t","e">>, out |-> <<"-">>, ansi |-> FALSE],
      [in |-> <<"t","r","u","n","c","_","m","o","d">>, out |-> <<"%">>, ansi |-> FALSE],
      [in |-> <<"m","d">>, out |-> <<"%">>, ansi |-> TRUE],
      [in |-> <<"a","m","d">>, out |-> <<"%","=">>, ansi |-> TRUE],
      [in |-> <<"t","r","u","n","c","_","d","i","v">>, out |-> <<"/">>, ansi |-> FALSE],
      [in |-> <<"d","v">>, out |-> <<"/">>, ansi |-> TRUE],
      [in |-> <<"a","d","v">>, out |-> <<"/","=">>, ansi |-> TRUE],
      [in |-> <<"t","r","u","t","h","_","a","n","d","i","f">>, out |-> <<"&","&">>, ansi |-> FALSE],
      [in |-> <<"a","a">>, out |-> <<"&","&">>, ansi |-> TRUE],
      [in |-> <<"t","r","u","t","h","_","o","r","i","f">>, out |-> <<"|","|">>, ansi |-> FALSE],
      [in |-> <<"o","o">>, out |-> <<"|","|">>, ansi |-> TRUE],
      [in |-> <<"t","r","u","t","h","_","n","o","t">>, out |-> <<"!">>, ansi |-> FALSE],
      [in |-> <<"n","t">>, out |-> <<"!">>, ansi |-> TRUE],
      [in |-> <<"p","o","s","t","i","n","c","r","e","m","e","n","t">>, out |-> <<"+","+">>, ansi |-> FALSE],
      [in |-> <<"p","p">>, out |-> <<"+","+">>, ansi |-> TRUE],
      [in |-> <<"p","o","s","t","d","e","c","r","e","m","e","n","t">>, out |-> <<"-","-">>, ansi |-> FALSE],
      [in |-> <<"m","m">>, out |-> <<"-","-">>, ansi |-> TRUE],
      [in |-> <<"b","i","t","_","i","o","r">>, out |-> <<"|">>, ansi |-> FALSE],
      [in |-> <<"o","r">>, out |-> <<"|">>, ansi |-> TRUE],
      [in |-> <<"a","o","r">>, out |-> <<"|","=">>, ansi |-> TRUE],
      [in |-> <<"b","i","t","_","x","o","r">>, out |-> <<"^">>, ansi |-> FALSE],
      [in |-> <<"e","r">>, out |-> <<"^">>, ansi |-> TRUE],
      [in |-> <<"a","e","r">>, out |-> <<"^","=">>, ansi |-> TRUE],
      [in |-> <<"b","i","t","_","a","n","d">>, out |-> <<"&">>, ansi |-> FALSE],
      [in |-> <<"a","d">>, out |-> <<"&">>, ansi |-> TRUE],
      [in |-> <<"a","a","d">>, out |-> <<"&","=">>, ansi |-> TRUE],
      [in |-> <<"b","i","t","_","n","o","t">>, out |-> <<"~">>, ansi |-> FALSE],
      [in |-> <<"c","o">>, out |-> <<"~">>, ansi |-> TRUE],
      [in |-> <<"c","a","l","l">>, out |-> <<"(",")">>, ansi |-> FALSE],
      [in |-> <<"c","l">>, out |-> <<"(",")">>, ansi |-> TRUE],
      [in |-> <<"a","l","s","h","i","f","t">>, out |-> <<"<","<">>, ansi |-> FALSE],
      [in |-> <<"l","s">>, out |-> <<"<","<">>, ansi |-> TRUE],
      [in |-> <<"a","l","s">>, out |-> <<"<","<","=">>, ansi |-> TRUE],
      [in |-> <<"a","r","s","h","i","f","t">>, out |-> <<">",">">>, ansi |-> FALSE],
      [in |-> <<"r","s">>, out |-> <<">",">">>, ansi |-> TRUE],
      [in |-> <<"a","r","s">>, out |-> <<">",">","=">>, ansi |-> TRUE],
      [in |-> <<"c","o","m","p","o","n","e","n","t">>, out |-> <<"-",">">>, ansi |-> FALSE],
      [in |-> <<"p","t">>, out |-> <<"-",">">>, ansi |-> TRUE],
      [in |-> <<"r","f">>, out |-> <<"-",">">>, ansi |-> TRUE],
      [in |-> <<"i","n","d","i","r","e","c","t">>, out |-> <<"*">>, ansi |-> FALSE],
      [in |-> <<"m","e","t","h","o","d","_","c","a","l","l">>, out |-> <<"-",">","(",")">>, ansi |-> FALSE],
      [in |-> <<"a","d","d","r">>, out |-> <<"&">>, ansi |-> FALSE],
      [in |-> <<"a","r","r","a","y">>, out |-> <<"[","]">>, ansi |-> FALSE],
      [in |-> <<"v","c">>, out |-> <<"[","]">>, ansi |-> TRUE],
      [in |-> <<"c","o","m","p","o","u","n","d">>, out |-> <<","," ">>, ansi |-> FALSE],
      [in |-> <<"c","m">>, out |-> <<","," ">>, ansi |-> TRUE],
      [in |-> <<"c","o","n","d">>, out |-> <<"?",":">>, ansi |-> FALSE],
      [in |-> <<"c","n">>, out |-> <<"?",":">>, ansi |-> TRUE],
      [in |-> <<"m","a","x">>, out |-> <<">","?">>, ansi |-> FALSE],
      [in |-> <<"m","x">>, out |-> <<">","?">>, ansi |-> TRUE],
      [in |-> <<"m","i","n">>, out |-> <<"<","?">>, ansi |-> FALSE],
      [in |-> <<"m","n">>, out |-> <<"<","?">>, ansi |-> TRUE],
      [in |-> <<"n","o","p">>, out |-> <<>>, ansi |-> FALSE],
      [in |-> <<"r","m">>, out |-> <<"-",">","*">>, ansi |-> TRUE],
      [in |-> <<"s","z">>, out |-> <<"s","i","z","e","o","f"," ">>, ansi |-> TRUE]
    >>

(* Templates *)

Lit_class == <<"c","l","a","s","s">>

\* for (i = 0; i < r; i++) of demangle_template_template_parm
template_template_parm_loop(w0, tname, i, r, need_comma) ==
    LET w == Tick(w0)
        t1 == IF need_comma THEN string_append(tname, <<",", " ">>) ELSE tname
    IN
    IF Halted(w) THEN Ret(w, 0, tname)
    ELSE IF i >= r THEN Ret(w, 1, tname)
    ELSE CASE Cur(w) = "Z" ->
                call("template_template_parm_loop", <<Adv(w, 1), string_append(t1, Lit_class),
                                            i + 1, r, TRUE>>)
           [] Cur(w) = "z" ->
                LET n == call("demangle_template_template_parm", <<Adv(w, 1), t1>>) IN
                IF n.ok = 0 THEN n
                ELSE call("template_template_parm_loop", <<n.w, n.s, i + 1, r, TRUE>>)
           [] OTHER ->
                LET ty == call("do_type", <<w>>) IN
                IF ty.ok = 0 THEN Ret(ty.w, 0, t1)
                ELSE call("template_template_parm_loop", <<ty.w, string_appends(t1, ty.s),
                                                 i + 1, r, TRUE>>)

demangle_template_template_parm(w, tname) ==
    LET t0 == string_append(tname, <<"t","e","m","p","l","a","t","e"," ","<">>)
        g == call("get_count", <<w>>)
        l == IF g.ok # 0 THEN call("template_template_parm_loop", <<g.w, t0, 0, g.n, FALSE>>)
             ELSE Ret(g.w, 1, t0)
    IN Ret(l.w, l.ok, string_append(l.s, <<">"," ","c","l","a","s","s">>))

\* the first optable entry whose `in` is a prefix of the text at the cursor,
\* or 0
FirstOperator(m) ==
    LET hits == {i \in 1..Len(optable) :
                   Len(optable[i].in) <= strlen(m) /\ StartsWith(m, optable[i].in)}
    IN IF hits = {} THEN 0 ELSE CHOOSE i \in hits : \A j \in hits : i <= j

\* while (success && **mangled != 'W' && **mangled != '\0')
integral_expression_loop(w0, s, need_operator) ==
    LET w == Tick(w0) IN
    IF Halted(w) THEN Ret(w, 0, s)
    ELSE IF Cur(w) \in {"W", NUL} THEN Ret(w, 1, s)
    ELSE LET op == call("FirstOperator", <<w.m>>)
             w1 == IF need_operator /\ op # 0 THEN Adv(w, Len(optable[op].in)) ELSE w
             s1 == IF need_operator /\ op # 0
                   THEN s \o <<" ">> \o optable[op].out \o <<" ">> ELSE s
         IN IF need_operator /\ op = 0 THEN Ret(w, 0, s)
            ELSE LET v == call("demangle_template_value_parm", <<w1, s1, tk_integral>>) IN
                 IF v.ok = 0 THEN v
                 ELSE LET n == call("integral_expression_loop", <<v.w, v.s, TRUE>>) IN
                      Ret(n.w, IF n.ok = 0 THEN 0 ELSE v.ok, n.s)

\* while (isdigit (**mangled)) { string_appendn (s, *mangled, 1); (*mangled)++; }
append_digits(w, s) ==
    IF isdigit(Cur(w)) THEN call("append_digits", <<Adv(w, 1), Append(s, Cur(w))>>) ELSE Ret(w, 1, s)

\* char_str[0] = c; string_append (s, char_str);
append_char_str(w, s, c) == Ret([w EXCEPT !.char_str0 = c], 1, Append(s, c))

\* while (isdigit (**mangled)) { char_str[0] = **mangled; string_append (result, char_str); (*mangled)++; }
char_str_digits(w, s) ==
    IF isdigit(Cur(w))
    THEN LET a == append_char_str(w, s, Cur(w)) IN call("char_str_digits", <<Adv(a.w, 1), a.s>>)
    ELSE Ret(w, 1, s)

\* if (**mangled == 'm') { string_appendn (s, "-", 1); (*mangled)++; }
minus_sign(w, s) == IF Cur(w) = "m" THEN Ret(Adv(w, 1), 1, Append(s, "-")) ELSE Ret(w, 1, s)

demangle_integral_value(w, s) ==
    CASE Cur(w) = "E" ->
           LET l == call("integral_expression_loop", <<Adv(w, 1), Append(s, "("), FALSE>>) IN
           IF Cur(l.w) # "W" THEN Ret(l.w, 0, l.s)
           ELSE Ret(Adv(l.w, 1), l.ok, Append(l.s, ")"))
      [] Cur(w) \in {"Q", "K"} -> call("demangle_qualified", <<w, s, 0, 1>>)
      [] OTHER ->
           LET sg == minus_sign(w, s)
               d == call("append_digits", <<sg.w, sg.s>>)
           IN Ret(d.w, IF isdigit(Cur(sg.w)) THEN 1 ELSE 0, d.s)

\* (char) val; the double quote, the backslash and the backtick
\* are spelled out
Ascii ==
    <<" ","!","DQUOTE","#","$","%","&","'","(",")","*","+",",","-",".","/",
      "0","1","2","3","4","5","6","7","8","9",":",";","<","=",">","?",
      "@","A","B","C","D","E","F","G","H","I","J","K","L","M","N","O",
      "P","Q","R","S","T","U","V","W","X","Y","Z","[","BACKSLASH","]","^","_",
      "BACKTICK","a","b","c","d","e","f","g","h","i","j","k","l","m","n","o",
      "p","q","r","s","t","u","v","w","x","y","z","{","|","}","~">>

Chr(val) ==
    LET b == val % 256 IN
    IF b = 0 THEN NUL ELSE IF b >= 32 /\ b <= 126 THEN Ascii[b - 31] ELSE "?"

Lit_false == <<"f","a","l","s","e">>
Lit_true == <<"t","r","u","e">>

\* demangle_copy with the dialect of its caller left out of the options it passes
demangle_copy_default_style(w, n) ==
    LET p == call("CStr", <<Bytes(w.m, Clamp(w.m, n))>>)
        q == call("cplus_demangle_v2", <<p, [w.options EXCEPT !.style = "none"], w.fuel>>)
    IN [w |-> [w EXCEPT !.fuel = q.fuel,
                        !.diverged = @ \/ q.diverged,
                        !.exhausted = @ \/ q.exhausted,
                        !.oob = @ \/ q.oob,
                        !.badidx = @ \/ q.badidx,
                        !.ovf = @ \/ q.ovf,
                        !.stale = @ \/ q.stale,
                        !.shared = @ \/ q.work.shared,
                        !.residue = @ \/ q.work.residue,
                        !.noargs = @ \/ q.work.noargs,
                        !.misfilled = @ \/ q.work.misfilled,
                        !.replayed = @ \/ q.work.replayed,
                        !.misargued = @ \/ q.work.misargued,
                        !.overwritten = @ \/ q.work.overwritten,
                        !.unnamed = @ \/ q.work.unnamed,
                        !.bare = @ \/ q.work.bare,
                        !.hollow = @ \/ q.work.hollow,
                        !.yfail = @ \/ q.work.yfail,
                        !.unrestored = @ \/ q.work.unrestored \/ Pending(q.work) # PendingZero,
                        !.nested = @ \/ q.work.nested,
                        !.unframed = @ \/ q.work.unframed,
                        !.shrunk = @ \/ q.work.shrunk,
                        !.restyled = @ \/ q.work.restyled
                                       \/ q.work.options.style # w.options.style,
                        !.live = @ + q.work.live,
                        !.char_str0 = IF q.work.char_str0 # NUL THEN q.work.char_str0 ELSE @,
                        !.raw = @ \/ q.raw \/ (q.ret = NULLP)],
        p |-> p, ret |-> q.ret]

\* p = copy of the n bytes at the cursor; q = cplus_demangle_v2 (p, options):
\* the context after the call, the copy and the text returned (or NULLP)
demangle_copy(w, n) ==
    LET p == call("CStr", <<Bytes(w.m, Clamp(w.m, n))>>)
        q == call("cplus_demangle_v2", <<p, w.options, w.fuel>>)
    IN [w |-> [w EXCEPT !.fuel = q.fuel,
                        !.diverged = @ \/ q.diverged,
                        !.exhausted = @ \/ q.exhausted,
                        !.oob = @ \/ q.oob,
                        !.badidx = @ \/ q.badidx,
                        !.ovf = @ \/ q.ovf,
                        !.stale = @ \/ q.stale,
                        !.shared = @ \/ q.work.shared,
                        !.residue = @ \/ q.work.residue,
                        !.noargs = @ \/ q.work.noargs,
                        !.misfilled = @ \/ q.work.misfilled,
                        !.replayed = @ \/ q.work.replayed,
                        !.misargued = @ \/ q.work.misargued,
                        !.overwritten = @ \/ q.work.overwritten,
                        !.unnamed = @ \/ q.work.unnamed,
                        !.bare = @ \/ q.work.bare,
                        !.hollow = @ \/ q.work.hollow,
                        !.yfail = @ \/ q.work.yfail,
                        !.unrestored = @ \/ q.work.unrestored \/ Pending(q.work) # PendingZero,
                        !.nested = @ \/ q.work.nested,
                        !.unframed = @ \/ q.work.unframed,
                        !.shrunk = @ \/ q.work.shrunk,
                        !.restyled = @ \/ q.work.restyled
                                       \/ q.work.options.style # w.options.style,
                        !.live = @ + q.work.live,
                        !.char_str0 = IF q.work.char_str0 # NUL THEN q.work.char_str0 ELSE @,
                        !.raw = @ \/ q.raw \/ (q.ret = NULLP)],
        p |-> p, ret |-> q.ret]

\* the pointer / reference constant of demangle_template_value_parm that is
\* not a qualified name: a counted symbol, demangled on its own
value_parm_symbol(w, s, tk) ==
    LET c == consume_count(w)
        symbol_len == c.n
    IN IF symbol_len = -1 THEN Ret(c.w, -1, s)
       ELSE IF symbol_len = 0 THEN Ret(c.w, 1, Append(s, "0"))
       ELSE IF symbol_len < 0 THEN Ret(Lost(c.w), 0, s)
       ELSE LET q == call("demangle_copy", <<c.w, symbol_len>>)
                s1 == IF tk = tk_pointer THEN Append(s, "&") ELSE s
            IN Ret(Adv(q.w, symbol_len), 1,
                   IF q.ret # NULLP THEN string_append(s1, q.ret)
                   ELSE string_append(s1, q.p))

demangle_template_value_parm(w, s, tk) ==
    CASE Cur(w) = "Y" ->
           LET r == call("template_parm_ref", <<Adv(w, 1)>>) IN
           IF r.ok = 0 THEN Ret([r.w EXCEPT !.yfail = TRUE], -1, s)
           ELSE Ret(r.w, 1, string_append(s, r.s))
      [] Cur(w) # "Y" /\ tk = tk_integral -> call("demangle_integral_value", <<w, s>>)
      [] Cur(w) # "Y" /\ tk = tk_char ->
           LET sg == minus_sign(w, s)
               c == consume_count(sg.w)
           IN IF c.n <= 0 THEN Ret(c.w, 0, Append(sg.s, "'"))
              ELSE Ret(c.w, 1, sg.s \o <<"'", Chr(c.n), "'">>)
      [] Cur(w) # "Y" /\ tk = tk_bool ->
           LET c == consume_count(w) IN
           IF c.n = 0 THEN Ret(c.w, 1, s \o Lit_false)
           ELSE IF c.n = 1 THEN Ret(c.w, 1, s \o Lit_true)
           ELSE Ret(c.w, 0, s)
      [] Cur(w) # "Y" /\ tk = tk_real ->
           LET sg == minus_sign(w, s)
               ip == call("append_digits", <<sg.w, sg.s>>)
               fr == IF Cur(ip.w) = "." THEN call("append_digits", <<Adv(ip.w, 1), Append(ip.s, ".")>>)
                     ELSE ip
               ex == IF Cur(fr.w) = "e" THEN call("append_digits", <<Adv(fr.w, 1), Append(fr.s, "e")>>)
                     ELSE fr
           IN Ret(ex.w, 1, ex.s)
      [] Cur(w) # "Y" /\ tk \in {tk_pointer, tk_reference} ->
           IF Cur(w) = "Q" THEN call("demangle_qualified", <<w, s, 0, 1>>)
           ELSE call("value_parm_symbol", <<w, s, tk>>)
      [] OTHER -> Ret(w, 1, s)

PadTo(vec, n) == IF Len(vec) >= n THEN vec ELSE call("PadTo", <<Append(vec, NULLP), n>>)

\* work->tmpl_argvec[i] = copy of str, when !is_type
save_tmpl_arg(w, is_type, i, str) ==
    IF is_type # 0 THEN w
    ELSE IF w.tmpl_argvec = NULLV THEN [w EXCEPT !.badidx = TRUE]
    ELSE [w EXCEPT !.tmpl_argvec = [call("PadTo", <<@, i + 1>>) EXCEPT ![i + 1] = call("CStr", <<str>>)]]

\* for (i = 0; i < r; i++) of demangle_template; success is the value the
\* previous iteration left
template_args_loop(w0, tname, i, r, need_comma, is_type, success) ==
    LET w == Tick(w0)
        t1 == IF need_comma THEN string_append(tname, <<",", " ">>) ELSE tname
    IN
    IF Halted(w) THEN Ret(w, 0, tname)
    ELSE IF i >= r THEN Ret(w0, success, tname)
    ELSE CASE Cur(w) = "Z" ->
                LET ty == call("do_type", <<Adv(w, 1)>>) IN
                IF ty.ok = 0 THEN Ret(ty.w, 0, t1)
                ELSE call("template_args_loop", <<save_tmpl_arg(ty.w, is_type, i, ty.s),
                                        string_appends(t1, ty.s), i + 1, r, TRUE,
                                        is_type, ty.ok>>)
           [] Cur(w) = "z" ->
                LET tt == call("demangle_template_template_parm", <<Adv(w, 1), t1>>)
                    c == consume_count(tt.w)
                    named == c.n > 0 /\ strlen(c.w.m) >= c.n
                IN IF tt.ok = 0 THEN tt
                   ELSE IF named
                   THEN call("template_args_loop", <<
                          Adv(save_tmpl_arg(c.w, is_type, i, Bytes(c.w.m, c.n)), c.n),
                          string_appendn(string_append(tt.s, <<" ">>), c.w.m, c.n),
                          i + 1, r, TRUE, is_type, tt.ok>>)
                   ELSE call("template_args_loop", <<c.w, tt.s, i + 1, r, TRUE, is_type, tt.ok>>)
           [] OTHER ->
                LET ty == call("do_type", <<w>>)
                    v == call("demangle_template_value_parm", <<
                           ty.w, IF is_type # 0 THEN t1 ELSE <<>>, ty.ok>>)
                    \* the error value -1 is not 0: the loop goes on
                    w1 == IF v.ok = -1 THEN [v.w EXCEPT !.raw = TRUE] ELSE v.w
                IN IF ty.ok = 0 THEN Ret(ty.w, 0, t1)
                   ELSE IF v.ok = 0 THEN Ret(v.w, 0, IF is_type # 0 THEN v.s ELSE t1)
                   ELSE call("template_args_loop", <<
                          save_tmpl_arg(w1, is_type, i, v.s),
                          IF is_type # 0 THEN v.s ELSE string_appends(t1, v.s),
                          i + 1, r, TRUE, is_type, v.ok>>)

TRet(w, ok, tname, trawname) == [w |-> w, ok |-> ok, s |-> tname, raw |-> trawname]

\* the template name of demangle_template when is_type: ok = 0 is return (0)
template_name(w, tname, trawname) ==
    IF Cur(w) = "z"
    THEN LET r == call("template_parm_ref", <<Adv(w, 2)>>) IN
         IF r.ok = 0
         THEN [w |-> r.w, ok |-> 0, s |-> tname, raw |-> trawname, java |-> FALSE]
         ELSE [w |-> r.w, ok |-> 1, s |-> string_append(tname, r.s),
               raw |-> IF trawname = NULLP THEN NULLP ELSE string_append(trawname, r.s),
               java |-> FALSE]
    ELSE LET c == consume_count(w)
             r == c.n
             is_java_array == c.w.options.java
                              /\ StartsWith(c.w.m, <<"J","A","r","r","a","y","1","Z">>)
         IN IF r <= 0 \/ strlen(c.w.m) < r
            THEN [w |-> c.w, ok |-> 0, s |-> tname, raw |-> trawname, java |-> FALSE]
            ELSE [w |-> Adv(c.w, r), ok |-> 1,
                  s |-> IF is_java_array THEN tname ELSE string_appendn(tname, c.w.m, r),
                  raw |-> IF trawname = NULLP THEN NULLP
                          ELSE string_appendn(trawname, c.w.m, r),
                  java |-> is_java_array]

demangle_template(w0, tname0, trawname0, is_type, remember) ==
    LET w1 == Adv(Tick(w0), 1)
        w2 == IF is_type # 0 /\ remember # 0 THEN register_Btype(w1) ELSE w1
        bindex == registered_index(w2) - 1
        nm == IF is_type # 0 THEN call("template_name", <<w2, tname0, trawname0>>)
              ELSE [w |-> w2, ok |-> 1, s |-> tname0, raw |-> trawname0, java |-> FALSE]
        t1 == IF nm.java THEN nm.s ELSE string_append(nm.s, <<"<">>)
        g == call("get_count", <<nm.w>>)
        r == g.n
        w3 == IF is_type # 0 THEN g.w
              ELSE [g.w EXCEPT !.tmpl_argvec = IF r < 0 THEN NULLV ELSE <<>>,
                               !.live = IF r < 0 THEN @ ELSE @ + 1,
                               !.overwritten = @ \/ g.w.tmpl_argvec # NULLV,
                               !.ntmpl_args = r]
        l == call("template_args_loop", <<w3, t1, 0, r, FALSE, is_type, 0>>)
        t2 == string_append(l.s, IF nm.java THEN <<"[", "]">> ELSE <<">">>)
        w4 == [IF is_type # 0 /\ remember # 0 THEN remember_Btype(l.w, t2, bindex) ELSE l.w
                 EXCEPT !.noargs = @ \/ (r = 0 /\ l.ok = 0),
                        !.misfilled = @ \/ (is_type # 0 /\ remember # 0 /\ l.ok = 0)]
    IN IF Halted(w1) THEN TRet(w1, 0, tname0, trawname0)
       ELSE IF nm.ok = 0 THEN TRet(nm.w, 0, nm.s, nm.raw)
       ELSE IF g.ok = 0 THEN TRet(g.w, 0, t1, nm.raw)
       ELSE TRet(w4, l.ok, t2, nm.raw)

(* ARM / HP templates *)

ArmPt(ok, anchor, args) == [ok |-> ok, anchor |-> anchor, args |-> args]

\* the test of arm_pt once an anchor is found at offset anchor, its marker
\* being skip bytes long: ok is 1 (return 1), 0 (return 0) or 2 (go on)
arm_pt_anchor(w, n, anchor, skip) ==
    LET c == consume_count([w EXCEPT !.m.i = @ + anchor + skip])
        args == c.w.m.i - w.m.i
    IN IF c.n = -1 THEN ArmPt(0, anchor, args)
       ELSE IF c.n = n - args /\ Rd(w.m, args) = "_" THEN ArmPt(1, anchor, args + 1)
       ELSE ArmPt(2, anchor, args)

Lit_pt == <<"_","_","p","t","_","_">>
Lit_tm == <<"_","_","t","m","_","_">>
Lit_ps == <<"_","_","p","s","_","_">>

arm_pt(w, n) ==
    LET pt == mystrstr(w.m, Lit_pt)
        tm == mystrstr(w.m, Lit_tm)
        ps == mystrstr(w.m, Lit_ps)
        S == mystrstr(w.m, <<"_","_","S">>)
        first == IF (ARM_DEMANGLING(w) \/ HP_DEMANGLING(w)) /\ pt # -1
                 THEN call("arm_pt_anchor", <<w, n, pt, 6>>) ELSE ArmPt(2, 0, 0)
        second == IF ~(AUTO_DEMANGLING(w) \/ EDG_DEMANGLING(w)) THEN ArmPt(0, 0, 0)
                  ELSE IF tm # -1 THEN call("arm_pt_anchor", <<w, n, tm, 6>>)
                  ELSE IF ps # -1 THEN call("arm_pt_anchor", <<w, n, ps, 6>>)
                  ELSE IF pt # -1 THEN call("arm_pt_anchor", <<w, n, pt, 6>>)
                  ELSE IF S # -1 THEN call("arm_pt_anchor", <<w, n, S, 3>>)
                  ELSE ArmPt(0, 0, 0)
    IN IF first.ok # 2 THEN first
       ELSE IF second.ok = 2 THEN ArmPt(0, second.anchor, second.args)
       ELSE second

snarf_numeric_literal(w, arg) ==
    LET sg == IF Cur(w) = "-"
              THEN LET a == append_char_str(w, arg, "-") IN Ret(Adv(a.w, 1), 1, a.s)
              ELSE IF Cur(w) = "+" THEN Ret(Adv(w, 1), 1, arg)
              ELSE Ret(w, 1, arg)
    IN IF ~isdigit(Cur(sg.w)) THEN Ret(sg.w, 0, sg.s)
       ELSE call("char_str_digits", <<sg.w, sg.s>>)

do_hpacc_template_const_value(w0, result) ==
    IF Cur(w0) \notin {"U", "S"} THEN Ret(w0, 0, result)
    ELSE LET unsigned_const == Cur(w0) = "U"
             w == Adv(w0, 1)
             c == Cur(w)
         IN CASE c = "M" ->
                   Ret(Adv(w, 1), 1,
                       string_append(result, <<"-","2","1","4","7","4","8","3","6","4","8">>))
              [] c \in {"N", "P"} ->
                   LET r1 == IF c = "N" THEN Append(result, "-") ELSE result
                       w1 == Adv(w, 1)
                       d == call("char_str_digits", <<w1, r1>>)
                   IN IF ~isdigit(Cur(w1)) THEN Ret(w1, 0, r1)
                      ELSE Ret(d.w, 1, IF unsigned_const THEN Append(d.s, "U") ELSE d.s)
              [] OTHER -> Ret(w, 0, result)

do_hpacc_template_literal(w0, result) ==
    IF Cur(w0) # "A" THEN Ret(w0, 0, result)
    ELSE LET c == consume_count(Adv(w0, 1))
             literal_len == c.n
         IN IF literal_len <= 0 THEN Ret(c.w, 0, result)
            ELSE LET q == call("demangle_copy", <<c.w, literal_len>>)
                     r1 == Append(result, "&")
                 IN Ret(Adv(q.w, literal_len), 1,
                        IF q.ret # NULLP THEN string_append(r1, q.ret)
                        ELSE string_appendn(r1, c.w.m, Clamp(c.w.m, literal_len)))

\* while (1) of the HP aCC branch of demangle_arm_hp_template, up to the
\* label hpacc_template_args_done
hpacc_template_args(w0, declp) ==
    LET w == Tick(w0)
        c == Cur(w)
        a == CASE c = "T" -> call("do_type", <<Adv(w, 1)>>)
               [] c \in {"U", "S"} -> call("do_hpacc_template_const_value", <<w, <<>>>>)
               [] c = "A" -> call("do_hpacc_template_literal", <<w, <<>>>>)
               [] OTHER -> Ret(w, 0, <<>>)
    IN IF Halted(w) THEN Ret(w, 0, declp)
       ELSE IF c \notin {"T", "U", "S", "A"} THEN Ret(w, 1, declp)
       ELSE IF a.ok = 0 THEN Ret([a.w EXCEPT !.raw = TRUE], 1, declp)
       ELSE IF Cur(a.w) \in {NUL, "_"} THEN Ret(a.w, 1, string_appends(declp, a.s))
       ELSE call("hpacc_template_args", <<a.w, Append(string_appends(declp, a.s), ",")>>)

\* while (args < e) of the ARM branch of demangle_arm_hp_template, up to the
\* label cfront_template_args_done; the cursor of w is args
cfront_template_args(w0, e, declp) ==
    LET w == Tick(w0)
        c == Cur(w)
        ty == call("do_type", <<Adv(w, 1)>>)
        typed == <<"(">> \o ty.s \o <<")">>
        a == CASE c = "X" ->
                    IF ty.ok = 0 \/ Cur(ty.w) # "L" THEN Ret(ty.w, 0, <<>>)
                    ELSE call("snarf_numeric_literal", <<Adv(ty.w, 1), typed>>)
               [] c = "L" -> call("snarf_numeric_literal", <<Adv(w, 1), <<>>>>)
               [] OTHER -> call("do_type", <<w>>)
    IN IF Halted(w) THEN Ret(w, 0, declp)
       ELSE IF ~(w.m.i < e) THEN Ret(w0, 1, declp)
       ELSE IF a.ok = 0 THEN Ret([a.w EXCEPT !.raw = TRUE], 1, declp)
       ELSE IF NoProgress(w, a.w) THEN Ret([a.w EXCEPT !.diverged = TRUE], 0, declp)
       ELSE call("cfront_template_args", <<a.w, e, Append(string_appends(declp, a.s), ",")>>)

\* if (work->temp_start == -1) work->temp_start = v
set_temp_start(w, v) == IF w.temp_start = -1 THEN [w EXCEPT !.temp_start = v] ELSE w

Lit_GLOBAL == <<"_","G","L","O","B","A","L","_">>

demangle_arm_hp_template(w, n, declp) ==
    LET pt == call("arm_pt", <<w, n>>)
        lt == call("find_from", <<w.m, <<"<">>, 0>>)
    IN
    IF HP_DEMANGLING(w) /\ Rd(w.m, n) = "X"
    THEN LET d0 == string_appendn(declp, w.m, IF lt # -1 /\ lt < n THEN lt ELSE n)
             w1 == set_temp_start(Adv(w, n + 1), Len(d0))
             l == call("hpacc_template_args", <<w1, Append(d0, "<")>>)
         IN Ret(IF Cur(l.w) = "_" THEN Adv(l.w, 1) ELSE l.w, 1, Append(l.s, ">"))
    ELSE IF pt.ok = 1
    THEN LET d0 == string_appendn(declp, w.m, pt.anchor)
             w1 == set_temp_start(w, Len(d0))
             e == w.m.i + n
             l == call("cfront_template_args", <<[w1 EXCEPT !.m.i = @ + pt.args], e, Append(d0, "<")>>)
             d1 == IF l.w.m.i >= e THEN SubSeq(l.s, 1, Len(l.s) - 1) ELSE l.s
         IN Ret(Adv([l.w EXCEPT !.m = w.m], n), 1, Append(d1, ">"))
    ELSE IF n > 10 /\ StartsWith(w.m, Lit_GLOBAL) /\ Rd(w.m, 9) = "N"
            /\ Rd(w.m, 8) = Rd(w.m, 10) /\ strchr_markers(Rd(w.m, 8))
    THEN Ret(Adv(w, n), 1,
             string_append(declp, <<"{","a","n","o","n","y","m","o","u","s","}">>))
    ELSE Ret(Adv(set_temp_start(w, 0), n), 1, string_appendn(declp, w.m, n))

demangle_class_name(w, declp) ==
    LET c == consume_count(w)
        n == c.n
    IN IF n = -1 THEN Ret(c.w, 0, declp)
       ELSE IF n < 0
       \* a negative length passes the test against strlen: the name is read
       \* from before the text
       THEN Ret(Lost(c.w), 0, declp)
       ELSE IF strlen(c.w.m) >= n THEN call("demangle_arm_hp_template", <<c.w, n, declp>>)
       ELSE Ret(c.w, 0, declp)

\* demangle_class with the pending constructor or destructor left pending
demangle_class_keeps_pending(w0, declp) ==
    LET w1 == register_Btype(w0)
        btype == registered_index(w1) - 1
        cn == call("demangle_class_name", <<w1, <<>>>>)
        class_name == cn.s
        w == cn.w
        isCtorDtor == (w.constructor % 2 = 1) \/ (w.destructor % 2 = 1)
        short == IF w.temp_start # 0 /\ w.temp_start # -1
                 THEN SubSeq(class_name, 1, w.temp_start) ELSE class_name
        d1 == IF isCtorDtor THEN string_prepends(declp, short) ELSE declp
        d2 == IF isCtorDtor /\ w.destructor % 2 = 1 THEN string_prepend(d1, <<"~">>) ELSE d1
        w2 == w
        w3 == remember_Btype(remember_Ktype(w2, class_name), class_name, btype)
        d3 == string_prepends(string_prepend(d2, SCOPE_STRING(w)), class_name)
    IN IF cn.ok = 0 THEN Ret(cn.w, 0, declp) ELSE Ret(w3, 1, d3)

demangle_class(w0, declp) ==
    LET w1 == register_Btype(w0)
        btype == registered_index(w1) - 1
        cn == call("demangle_class_name", <<w1, <<>>>>)
        class_name == cn.s
        w == cn.w
        isCtorDtor == (w.constructor % 2 = 1) \/ (w.destructor % 2 = 1)
        short == IF w.temp_start # 0 /\ w.temp_start # -1
                 THEN SubSeq(class_name, 1, w.temp_start) ELSE class_name
        d1 == IF isCtorDtor THEN string_prepends(declp, short) ELSE declp
        d2 == IF isCtorDtor /\ w.destructor % 2 = 1 THEN string_prepend(d1, <<"~">>) ELSE d1
        w2 == IF ~isCtorDtor THEN w
              ELSE IF w.destructor % 2 = 1 THEN [w EXCEPT !.destructor = @ - 1]
              ELSE [w EXCEPT !.constructor = @ - 1]
        w3 == remember_Btype(remember_Ktype(w2, class_name), class_name, btype)
        d3 == string_prepends(string_prepend(d2, SCOPE_STRING(w)), class_name)
    IN IF cn.ok = 0 THEN Ret(cn.w, 0, declp) ELSE Ret(w3, 1, d3)

(* Qualified names *)

recursively_demangle(w, result, namelength) ==
    IF namelength < 0 THEN Ret(Lost(w), 0, result)
    ELSE LET q == call("demangle_copy", <<[w EXCEPT !.oob = @ \/ namelength > strlen(w.m) + 1],
                                namelength>>)
         IN Ret(Adv(q.w, namelength), 1,
                IF q.ret # NULLP THEN string_append(result, q.ret)
                ELSE string_appendn(result, w.m, Clamp(w.m, namelength)))

\* 'K' + index: the squangling reuse of a qualified name; the cursor is at 'K'
ktype_ref(w0, temp) ==
    LET c == call("consume_count_with_underscores", <<Adv(w0, 1)>>)
        idx == c.n
    IN IF idx = -1 \/ idx >= Len(c.w.ktypevec) THEN Ret(c.w, 0, temp)
       ELSE Ret(Indexed(c.w, c.w.ktypevec, idx), 1,
                string_append(temp, TableAt(c.w.ktypevec, idx)))

QRet(w, ok, temp, last_name, qualifiers) ==
    [w |-> w, ok |-> ok, s |-> temp, last |-> last_name, n |-> qualifiers]

\* the count of a 'Q' name: switch ((*mangled)[1])
qualified_count(w) ==
    LET c1 == Rd(w.m, 1) IN
    CASE c1 = "_" ->
           LET a == atoi(w.m, 2)
               nd == call("span_from", <<w.m, Digits, 2>>)      \* p, once the digits are skipped
               bad == ~isdigit(Rd(w.m, 2)) \/ Rd(w.m, 2) = "0" \/ Rd(w.m, nd) # "_"
           IN QRet([Adv(w, nd + 1) EXCEPT !.ovf = @ \/ a.ovf],
                   IF bad THEN 0 ELSE 1, <<>>, <<>>, a.n)
      [] c1 \in Digits \ {"0"} ->
           QRet(Adv(w, IF Rd(w.m, 2) = "_" THEN 3 ELSE 2), 1, <<>>, <<>>, DigitVal(c1))
      [] OTHER -> QRet(w, 0, <<>>, <<>>, 0)

\* while (qualifiers-- > 0) of demangle_qualified; success is the value the
\* previous iterations left
qualified_loop(w0, temp, last_name, qualifiers, success) ==
    LET wt == Tick(w0)
        w == IF Cur(wt) = "_" THEN Adv(wt, 1) ELSE wt
        c == Cur(w)
        sep(str) == IF qualifiers - 1 > 0 THEN string_append(str, SCOPE_STRING(w)) ELSE str
    IN
    IF Halted(wt) THEN QRet(wt, 0, temp, last_name, qualifiers)
    ELSE IF ~(qualifiers > 0) THEN QRet(w0, success, temp, last_name, qualifiers)
    ELSE CASE c = "t" ->
                LET tp == call("demangle_template", <<w, temp, <<>>, 1, 0>>) IN
                IF tp.ok = 0 THEN QRet(tp.w, 0, tp.s, tp.raw, qualifiers - 1)
                ELSE call("qualified_loop", <<remember_Ktype(tp.w, tp.s), sep(tp.s), tp.raw,
                                    qualifiers - 1, tp.ok>>)
           [] c = "K" ->
                LET k == call("ktype_ref", <<w, temp>>) IN
                IF k.ok = 0 THEN QRet(k.w, 0, temp, <<>>, qualifiers - 1)
                ELSE call("qualified_loop", <<k.w, sep(k.s), <<>>, qualifiers - 1, success>>)
           [] OTHER ->
                IF EDG_DEMANGLING(w)
                THEN LET cc == consume_count(w)
                         rd == call("recursively_demangle", <<cc.w, temp, cc.n>>)
                     IN IF cc.n = -1 THEN QRet(cc.w, 0, temp, <<>>, qualifiers - 1)
                        ELSE IF rd.ok = 0 THEN QRet(rd.w, 0, temp, <<>>, qualifiers - 1)
                        ELSE call("qualified_loop", <<remember_Ktype(rd.w, rd.s), sep(rd.s), <<>>,
                                            qualifiers - 1, success>>)
                ELSE LET ty == call("do_type", <<w>>)
                         t1 == string_appends(temp, ty.s)
                     IN IF ty.ok = 0 THEN QRet(ty.w, 0, temp, <<>>, qualifiers - 1)
                        ELSE call("qualified_loop", <<remember_Ktype(ty.w, t1), sep(t1), ty.s,
                                            qualifiers - 1, ty.ok>>)

demangle_qualified(w0, result, isfuncname0, append) ==
    LET w1 == register_Btype(w0)
        bindex == registered_index(w1) - 1
        isfuncname == isfuncname0 # 0
                      /\ ((w1.constructor % 2 = 1) \/ (w1.destructor % 2 = 1))
        hd == IF Cur(w1) = "K"
              THEN LET k == call("ktype_ref", <<w1, <<>>>>) IN QRet(k.w, k.ok, k.s, <<>>, 0)
              ELSE call("qualified_count", <<w1>>)
        l == call("qualified_loop", <<hd.w, hd.s, <<>>, hd.n, 1>>)
        w2 == [remember_Btype(l.w, l.s, bindex) EXCEPT
                 !.unnamed = @ \/ (isfuncname /\ l.ok # 0 /\ l.last = <<>>)]
        t1 == IF isfuncname
              THEN string_appends(
                     string_append(string_append(l.s, SCOPE_STRING(w2)),
                                   IF w2.destructor % 2 = 1 THEN <<"~">> ELSE <<>>),
                     l.last)
              ELSE l.s
    IN IF hd.ok = 0 THEN Ret(hd.w, 0, result)
       ELSE Ret(w2, l.ok,
                IF append # 0 THEN string_appends(result, t1)
                ELSE string_prepends(result,
                                     IF ~STRING_EMPTY(result)
                                     THEN string_append(t1, SCOPE_STRING(w2)) ELSE t1))

(* gnu_special *)

\* the name after the prefix of a virtual table, a static member or a
\* type_info symbol, when it starts with 'Q', 'K' or 't'
special_name(w, declp) ==
    IF Cur(w) \in {"Q", "K"} THEN call("demangle_qualified", <<w, declp, 0, 1>>)
    ELSE LET tp == call("demangle_template", <<w, declp, NULLP, 1, 1>>) IN Ret(tp.w, tp.ok, tp.s)

\* while (**mangled != '\0') of the virtual table branch of gnu_special
vtable_loop(w0, declp, success) ==
    LET w == Tick(w0)
        c == Cur(w)
        cc == consume_count(w)
        n == IF isdigit(c) THEN cc.n ELSE strcspn(w.m, cplus_markers)
        wn == IF isdigit(c) THEN cc.w ELSE w
        \* the switch
        sw == IF c \in {"Q", "K", "t"} THEN special_name(w, declp)
              ELSE IF isdigit(c) /\ n > strlen(wn.m) THEN Ret(wn, 1, declp)
              ELSE IF n < 0 THEN Ret(Lost(wn), 0, declp)
              ELSE Ret(Adv(wn, n), success, string_appendn(declp, wn.m, n))
        p == strpbrk(sw.w.m, cplus_markers)
    IN IF Halted(w) THEN Ret(w, 0, declp)
       ELSE IF c = NUL THEN Ret(w0, success, declp)
       ELSE IF sw.ok # 0 /\ p = -1 THEN call("vtable_loop", <<sw.w, sw.s, sw.ok>>)
       ELSE IF sw.ok # 0 /\ p = 0
       THEN call("vtable_loop", <<Adv(sw.w, 1), string_append(sw.s, SCOPE_STRING(w)), sw.ok>>)
       ELSE Ret(sw.w, 0, sw.s)

Lit_thunk == <<"_","_","t","h","u","n","k","_">>

gnu_special(w, declp) ==
    LET c0 == Rd(w.m, 0)
        c1 == Rd(w.m, 1)
        c2 == Rd(w.m, 2)
        c3 == Rd(w.m, 3)
        c4 == Rd(w.m, 4)
        \* the bytes the conditions read after a terminator at (*mangled)[1]
        wr == IF c0 = "_" /\ c1 = NUL THEN Touch(w, 2) ELSE w
        isDtor == c0 = "_" /\ strchr_markers(c1) /\ c2 = "_"
        isVt == c0 = "_" /\ ((c1 = "_" /\ c2 = "v" /\ c3 = "t" /\ c4 = "_")
                             \/ (c1 = "v" /\ c2 = "t" /\ strchr_markers(c3)))
        p == strpbrk(w.m, cplus_markers)
        isStatic == c0 = "_" /\ strchr_digitsQt(c1) /\ p # -1
        isThunk == StartsWith(w.m, Lit_thunk)
        isTinfo == StartsWith(w.m, <<"_","_","t">>) /\ c3 \in {"i", "f"}
    IN
    CASE isDtor -> Ret([Adv(wr, 3) EXCEPT !.destructor = @ + 1], 1, declp)
      [] ~isDtor /\ isVt ->
           LET l == call("vtable_loop", <<Adv(wr, IF c2 = "v" THEN 5 ELSE 4), declp, 1>>) IN
           Ret(l.w, l.ok,
               IF l.ok # 0
               THEN string_append(l.s, <<" ","v","i","r","t","u","a","l"," ","t","a","b","l","e">>)
               ELSE l.s)
      [] ~isDtor /\ ~isVt /\ isStatic ->
           LET w1 == Adv(wr, 1)
               cc == consume_count(w1)
               nm == IF Cur(w1) \in {"Q", "K", "t"} THEN special_name(w1, declp)
                     ELSE IF cc.n < 0 \/ cc.n > strlen(cc.w.m) THEN Ret(cc.w, 0, declp)
                     ELSE Ret(Adv(cc.w, cc.n), 1, string_appendn(declp, cc.w.m, cc.n))
               w2 == Adv(nm.w, 1)
               n == strlen(w2.m)
           IN IF nm.ok # 0 /\ nm.w.m.i = w.m.i + p
              THEN Ret(Adv(w2, n), nm.ok,
                       string_appendn(string_append(nm.s, SCOPE_STRING(w)), w2.m, n))
              ELSE Ret(nm.w, 0, nm.s)
      [] ~isDtor /\ ~isVt /\ ~isStatic /\ isThunk ->
           LET cc == consume_count(Adv(wr, 8))
               delta == cc.n
               w1 == Adv(cc.w, 1)
               method == call("internal_cplus_demangle", <<w1>>)
               w2 == [method.w EXCEPT !.m = w1.m,
                                      !.shared = @ \/ Tables(method.w) # Tables(w1),
                                      !.unrestored = @ \/ Pending(method.w) # Pending(w1)]
           IN IF delta = -1 THEN Ret(cc.w, 0, declp)
              ELSE IF method.ret = NULLP THEN Ret(w2, 0, declp)
              ELSE Ret(Adv(w2, strlen(w2.m)), 1,
                       string_append(
                         string_append(
                           declp,
                           <<"v","i","r","t","u","a","l"," ","f","u","n","c","t","i","o","n",
                             " ","t","h","u","n","k"," ","(","d","e","l","t","a",":">>
                           \o IntToStr(IF delta = (0 - 2147483647) - 1 THEN delta
                                       ELSE 0 - delta)
                           \o <<")"," ","f","o","r"," ">>),
                         method.ret))
      [] ~isDtor /\ ~isVt /\ ~isStatic /\ ~isThunk /\ isTinfo ->
           LET w1 == Adv(wr, 4)
               nm == IF Cur(w1) \in {"Q", "K", "t"} THEN special_name(w1, declp)
                     ELSE call("demangle_fund_type", <<w1, declp>>)
               ok == IF nm.ok # 0 /\ Cur(nm.w) # NUL THEN 0 ELSE nm.ok
           IN Ret(nm.w, ok,
                  IF ok # 0
                  THEN string_append(
                         nm.s,
                         IF c3 = "i"
                         THEN <<" ","t","y","p","e","_","i","n","f","o"," ","n","o","d","e">>
                         ELSE <<" ","t","y","p","e","_","i","n","f","o"," ",
                                "f","u","n","c","t","i","o","n">>)
                  ELSE nm.s)
      [] OTHER -> Ret(wr, 0, declp)

(* arm_special *)

\* while (*scan != '\0') of arm_special: "first check it can be demangled";
\* the cursor of w is scan
arm_vtable_scan(w0) ==
    LET w == Tick(w0)
        c == consume_count(w)
        w1 == Adv(c.w, c.n)
    IN IF Halted(w) THEN [w |-> w, ok |-> 0]
       ELSE IF Cur(w) = NUL THEN [w |-> w0, ok |-> 1]
       ELSE IF c.n = -1 THEN [w |-> c.w, ok |-> 0]
       ELSE IF c.n < 0 THEN [w |-> Lost(c.w), ok |-> 0]
       ELSE call("arm_vtable_scan", <<IF Cur(w1) = "_" /\ Peek(w1, 1) = "_" THEN Adv(w1, 2) ELSE w1>>)

\* while (**mangled != '\0') of arm_special
arm_vtable_names(w0, declp) ==
    LET w == Tick(w0)
        c == consume_count(w)
        w1 == Adv(c.w, c.n)
        d1 == string_prependn(declp, c.w.m, c.n)
    IN IF Halted(w) THEN Ret(w, 0, declp)
       ELSE IF Cur(w) = NUL THEN Ret(w0, 1, declp)
       ELSE IF c.n = -1 \/ c.n < 0 \/ c.n > strlen(c.w.m) THEN Ret(c.w, 0, declp)
       ELSE IF Cur(w1) = "_" /\ Peek(w1, 1) = "_"
       THEN call("arm_vtable_names", <<Adv(w1, 2), string_prepend(d1, <<":", ":">>)>>)
       ELSE call("arm_vtable_names", <<w1, d1>>)

ARM_VTABLE_STRING == <<"_","_","v","t","b","l","_","_">>

arm_special(w, declp) ==
    IF ~StartsWith(w.m, ARM_VTABLE_STRING) THEN Ret(w, 0, declp)
    ELSE LET sc == call("arm_vtable_scan", <<Adv(w, 8)>>)
             \* the scan moves no cursor of the caller
             w1 == [sc.w EXCEPT !.m = w.m]
             l == call("arm_vtable_names", <<Adv(w1, 8), declp>>)
         IN IF sc.ok = 0 THEN Ret(w1, 0, declp)
            ELSE Ret(l.w, l.ok,
                     IF l.ok # 0
                     THEN string_append(l.s, <<" ","v","i","r","t","u","a","l"," ",
                                               "t","a","b","l","e">>)
                     ELSE l.s)

(* demangle_function_name *)

\* declp->b[k]
BufAt(b, k) == IF k < Len(b) THEN b[k + 1] ELSE NUL

Lit_operator == <<"o","p","e","r","a","t","o","r">>

\* the first optable entry whose `in` is the text name, or 0
OperatorNamed(name) ==
    LET hits == {i \in 1..Len(optable) : optable[i].in = name} IN
    IF hits = {} THEN 0 ELSE CHOOSE i \in hits : \A j \in hits : i <= j

\* "operator" + out (+ suffix) for the operator named name, else the buffer
\* as it is
operator_name(b, name, suffix) ==
    LET i == call("OperatorNamed", <<name>>) IN
    IF i = 0 THEN b ELSE Lit_operator \o optable[i].out \o suffix

\* tem = declp->b + k; if (do_type (work, &tem, &type)) ...
conversion_operator(w, b, k) ==
    LET ty == call("do_type", <<[w EXCEPT !.m = Cursor(call("CStr", <<b>>), k + 1)]>>)
        w1 == [ty.w EXCEPT !.m = w.m]
    IN IF ty.ok # 0 THEN Ret(w1, 1, Lit_operator \o <<" ">> \o ty.s)
       ELSE Ret([w1 EXCEPT !.raw = TRUE], 1, b)

\* scan is the offset of the separator from the cursor
demangle_function_name(w0, declp0, scan) ==
    LET d0 == string_appendn(declp0, w0.m, scan)
        w1 == [Adv(w0, scan + 2) EXCEPT !.boundary = w0.m.i + scan]
        hp == IF HP_DEMANGLING(w1) /\ Cur(w1) = "X"
              THEN call("demangle_arm_hp_template", <<w1, 0, d0>>) ELSE Ret(w1, 1, d0)
        w == hp.w
        b == hp.s
        len == Len(b)
        cfront == LUCID_DEMANGLING(w) \/ ARM_DEMANGLING(w) \/ HP_DEMANGLING(w)
                  \/ EDG_DEMANGLING(w)
    IN
    CASE cfront /\ call("CStr", <<b>>) = <<"_","_","c","t">> ->
           Ret([w EXCEPT !.constructor = @ + 1], 1, <<>>)
      [] cfront /\ call("CStr", <<b>>) = <<"_","_","d","t">> ->
           Ret([w EXCEPT !.destructor = @ + 1], 1, <<>>)
      [] OTHER ->
           IF len >= 3 /\ b[1] = "o" /\ b[2] = "p" /\ strchr_markers(b[3])
           THEN IF len >= 10 /\ SubSeq(b, 4, 10) = <<"a","s","s","i","g","n","_">>
                THEN Ret(w, 1, call("operator_name", <<b, SubSeq(b, 11, len), <<"=">>>>))
                ELSE Ret(w, 1, call("operator_name", <<b, SubSeq(b, 4, len), <<>>>>))
           ELSE IF len >= 5 /\ SubSeq(b, 1, 4) = <<"t","y","p","e">> /\ strchr_markers(b[5])
           THEN conversion_operator(w, b, 5)
           ELSE IF BufAt(b, 0) = "_" /\ BufAt(b, 1) = "_" /\ BufAt(b, 2) = "o"
                   /\ BufAt(b, 3) = "p"
           THEN conversion_operator(w, b, 4)
           ELSE IF BufAt(b, 0) = "_" /\ BufAt(b, 1) = "_" /\ BufAt(b, 2) \in LowerCase
                   /\ BufAt(b, 3) \in LowerCase
           THEN IF BufAt(b, 4) = NUL
                THEN Ret(w, 1, call("operator_name", <<b, SubSeq(b, 3, 4), <<>>>>))
                ELSE IF BufAt(b, 2) = "a" /\ BufAt(b, 5) = NUL
                THEN Ret(w, 1, call("operator_name", <<b, SubSeq(b, 3, 5), <<>>>>))
                ELSE Ret(w, 1, b)
           ELSE Ret(w, 1, b)

(* demangle_prefix *)

\* the cursor k bytes further
At(m, k) == [m EXCEPT !.i = @ + k]

Lit_uu == <<"_", "_">>

\* while ((tmp = mystrstr (scan + 2, "__")) != NULL) scan = tmp;
last_separator(m, scan) ==
    LET tmp == mystrstr(At(m, scan + 2), Lit_uu) IN
    IF tmp = -1 THEN scan ELSE call("last_separator", <<m, scan + 2 + tmp>>)

\* the prefixes demangle_prefix strips before it looks for the separator;
\* done = 1 is its early return
prefix_markers(w, declp) ==
    LET len == strlen(w.m)
        cfront == ARM_DEMANGLING(w) \/ HP_DEMANGLING(w) \/ EDG_DEMANGLING(w)
        Pre(w1, s, done) == [w |-> w1, s |-> s, done |-> done]
    IN
    IF len > 6 /\ (StartsWith(w.m, <<"_","i","m","p","_","_">>)
                   \/ StartsWith(w.m, <<"_","_","i","m","p","_">>))
    THEN Pre([Adv(w, 6) EXCEPT !.dllimported = 1], declp, 0)
    ELSE IF len >= 11 /\ StartsWith(w.m, Lit_GLOBAL)
    THEN IF Rd(w.m, 8) \in cplus_markers /\ Rd(w.m, 8) = Rd(w.m, 10)
            /\ Rd(w.m, 9) \in {"D", "I"}
         THEN LET w1 == IF Rd(w.m, 9) = "D" THEN [Adv(w, 11) EXCEPT !.destructor = 2]
                        ELSE [Adv(w, 11) EXCEPT !.constructor = 2]
                  g == call("gnu_special", <<w1, declp>>)
              IN Pre(g.w, g.s, IF g.ok # 0 THEN 1 ELSE 0)
         ELSE Pre(w, declp, 0)
    ELSE IF cfront /\ StartsWith(w.m, <<"_","_","s","t","d","_","_">>)
    THEN Pre([Adv(w, 7) EXCEPT !.destructor = 2], declp, 0)
    ELSE IF cfront /\ StartsWith(w.m, <<"_","_","s","t","i","_","_">>)
    THEN Pre([Adv(w, 7) EXCEPT !.constructor = 2], declp, 0)
    ELSE Pre(w, declp, 0)

\* the branch of demangle_prefix for a name that starts with "__" and is
\* not followed by a digit or 't'; scan is the offset of that "__"
prefix_leading_underscores(w, declp, scan) ==
    LET useArm == ARM_DEMANGLING(w) \/ LUCID_DEMANGLING(w) \/ HP_DEMANGLING(w)
                  \/ EDG_DEMANGLING(w)
        as == IF useArm THEN call("arm_special", <<w, declp>>) ELSE Ret(w, 0, declp)
        skip == scan + strspn(At(w.m, scan), {"_"})
        f == mystrstr(At(w.m, skip), Lit_uu)
        sep == IF ARM_DEMANGLING(w) \/ HP_DEMANGLING(w) THEN skip + f
               ELSE call("last_separator", <<w.m, skip + f>>)
        \* arm_special moves *mangled even when it returns 0
        rel == sep - (as.w.m.i - w.m.i)
    IN IF as.ok # 0 THEN as
       ELSE IF f = -1 \/ Rd(w.m, skip + f + 2) = NUL THEN Ret(as.w, 0, as.s)
       ELSE IF Rd(w.m, sep + 2) = NUL THEN Ret(as.w, 0, as.s)
       ELSE IF rel < 0 THEN Ret(Lost(as.w), 0, as.s)
       ELSE call("demangle_function_name", <<as.w, as.s, rel>>)

demangle_prefix(w0, declp0) ==
    LET pre == call("prefix_markers", <<w0, declp0>>)
        w == pre.w
        declp == pre.s
        first == mystrstr(w.m, Lit_uu)
        i == strspn(At(w.m, first), {"_"})
        scan == IF i > 2 THEN first + (i - 2) ELSE first
        S(k) == Rd(w.m, scan + k)
        cfront3 == LUCID_DEMANGLING(w) \/ ARM_DEMANGLING(w) \/ HP_DEMANGLING(w)
        body ==
          IF first = -1 THEN Ret(w, 0, declp)
          ELSE IF w.static_type # 0
          THEN Ret(w, IF ~isdigit(S(0)) /\ S(0) # "t" THEN 0 ELSE 1, declp)
          ELSE IF scan = 0 /\ (isdigit(S(2)) \/ S(2) \in {"Q", "t", "K", "H"})
          THEN IF cfront3 /\ isdigit(S(2))
               THEN LET c == consume_count(Adv(w, 2)) IN
                    Ret(Adv(c.w, strlen(c.w.m)), 1, string_append(declp, Rest(c.w.m)))
               ELSE Ret(Adv(IF ~(cfront3 \/ EDG_DEMANGLING(w))
                            THEN [w EXCEPT !.constructor = @ + 1] ELSE w, 2),
                        1, declp)
          ELSE IF ARM_DEMANGLING(w) /\ S(2) = "p" /\ S(3) = "t"
          THEN call("demangle_arm_hp_template", <<w, strlen(w.m), declp>>)
          ELSE IF EDG_DEMANGLING(w)
                  /\ ((S(2) = "t" /\ S(3) = "m") \/ (S(2) = "p" /\ S(3) = "s")
                      \/ (S(2) = "p" /\ S(3) = "t"))
          THEN call("demangle_arm_hp_template", <<w, strlen(w.m), declp>>)
          ELSE IF scan = 0 /\ ~isdigit(S(2)) /\ S(2) # "t"
          THEN call("prefix_leading_underscores", <<w, declp, scan>>)
          ELSE IF S(2) # NUL THEN call("demangle_function_name", <<w, declp, scan>>)
          ELSE Ret(w, 0, declp)
    IN IF pre.done = 1 THEN Ret(w, 1, declp)
       ELSE IF body.ok = 0 /\ (body.w.constructor = 2 \/ body.w.destructor = 2)
       THEN Ret(Adv(body.w, strlen(body.w.m)), 1, string_append(body.s, Rest(body.w.m)))
       ELSE body

(* demangle_signature *)

\* the locals of demangle_signature that live across iterations
SigLocals(success, func_done, expect_func, expect_return_type, oldmangled) ==
    [success |-> success, func_done |-> func_done, expect_func |-> expect_func,
     expect_return_type |-> expect_return_type, oldmangled |-> oldmangled]

Sig(w, ok, declp, st) == [w |-> w, ok |-> ok, s |-> declp, st |-> st]

\* if (oldmangled == NULL) oldmangled = *mangled;
old_or_here(w, st) == IF st.oldmangled = NoCursor THEN w.m ELSE st.oldmangled

\* remember_type (work, oldmangled, *mangled - oldmangled)
remember_since(w, old) == remember_type(w, old, w.m.i - old.i)

\* while (**mangled && (**mangled != '_')) (*mangled)++;
skip_to_underscore(w) ==
    IF Cur(w) # NUL /\ Cur(w) # "_" THEN call("skip_to_underscore", <<Adv(w, 1)>>) ELSE w

\* while (**mangled && isdigit (**mangled)) (*mangled)++;
skip_digits(w) == IF isdigit(Cur(w)) THEN call("skip_digits", <<Adv(w, 1)>>) ELSE w

\* case 't' of demangle_signature
signature_template(w, declp, st) ==
    LET old == old_or_here(w, st)
        tp == call("demangle_template", <<w, <<>>, <<>>, 1, 1>>)
        w1 == IF tp.ok # 0 THEN remember_since(tp.w, old) ELSE tp.w
        d1 == string_prepends(declp, string_append(tp.s, SCOPE_STRING(w)))
        isDtor == w1.destructor % 2 = 1
        trawname == IF isDtor THEN string_prepend(tp.raw, <<"~">>) ELSE tp.raw
        d2 == IF isDtor THEN string_appends(d1, trawname) ELSE d1
        w2 == IF isDtor THEN [w1 EXCEPT !.destructor = @ - 1] ELSE w1
        again == (w2.constructor % 2 = 1) \/ (w2.destructor % 2 = 1)
        d3 == IF again THEN string_appends(d2, trawname) ELSE d2
        w3 == IF again THEN [w2 EXCEPT !.constructor = @ - 1] ELSE w2
    IN Sig(w3, tp.ok, d3, [st EXCEPT !.oldmangled = NoCursor, !.expect_func = 1])

\* case 'F' of demangle_signature
signature_function(w, declp, st) ==
    LET w1 == Adv(w, 1)
        w2 == IF LUCID_DEMANGLING(w) \/ ARM_DEMANGLING(w) \/ HP_DEMANGLING(w)
                 \/ EDG_DEMANGLING(w)
              THEN [forget_types(w1) EXCEPT !.shrunk = @ \/ w1.typevec # <<>>] ELSE w1
        a == call("demangle_args", <<w2, declp>>)
        st1 == [st EXCEPT !.oldmangled = NoCursor, !.func_done = 1]
        rt == call("do_type", <<Adv(a.w, 1)>>)
    IN IF a.ok # 0 /\ (AUTO_DEMANGLING(w) \/ EDG_DEMANGLING(w)) /\ Cur(a.w) = "_"
       THEN Sig(rt.w, rt.ok, a.s, st1)
       ELSE Sig(a.w, a.ok, a.s, st1)

\* the switch of demangle_signature
signature_case(w, declp, st) ==
    LET c == Cur(w)
        gnuish == AUTO_DEMANGLING(w) \/ GNU_DEMANGLING(w)
    IN
    CASE c \in {"Q", "K"} ->
           LET q == call("demangle_qualified", <<w, declp, 1, 0>>)
               w1 == IF c = "Q" /\ q.ok # 0 THEN remember_since(q.w, w.m) ELSE q.w
           IN Sig(w1, q.ok, q.s,
                  [st EXCEPT !.oldmangled = NoCursor,
                             !.expect_func = IF gnuish THEN 1 ELSE @])
      [] c = "S" ->
           Sig([Adv(w, 1) EXCEPT !.static_type = 1], st.success, declp,
               [st EXCEPT !.oldmangled = old_or_here(w, st)])
      [] c \in {"C", "V", "u"} ->
           Sig([Adv(w, 1) EXCEPT !.type_quals = BitOr(@, code_for_qualifier(c))],
               st.success, declp,
               [st EXCEPT !.oldmangled = old_or_here(w, st)])
      [] c = "L" ->
           LET w1 == call("skip_to_underscore", <<w>>) IN
           IF ~HP_DEMANGLING(w) THEN Sig(w, 0, declp, st)
           ELSE IF Cur(w1) = NUL THEN Sig(w1, 0, declp, st)
           ELSE Sig(Adv(w1, 1), st.success, declp, st)
      [] c \in Digits ->
           LET old == old_or_here(w, st)
               cl == call("demangle_class", <<[w EXCEPT !.temp_start = -1], declp>>)
               w1 == IF cl.ok # 0 THEN remember_since(cl.w, old) ELSE cl.w
           IN Sig(w1, cl.ok, cl.s,
                  [st EXCEPT !.oldmangled = NoCursor,
                             !.expect_func =
                                IF (gnuish \/ EDG_DEMANGLING(w)) /\ Cur(cl.w) # "F"
                                THEN 1 ELSE @])
      [] c = "B" ->
           LET ty == call("do_type", <<w>>) IN
           Sig(ty.w, ty.ok,
               IF ty.ok # 0
               THEN string_prepends(declp, string_append(ty.s, SCOPE_STRING(w)))
               ELSE declp,
               [st EXCEPT !.oldmangled = NoCursor, !.expect_func = 1])
      [] c = "F" -> call("signature_function", <<w, declp, st>>)
      [] c = "t" -> call("signature_template", <<w, declp, st>>)
      [] c = "_" ->
           IF GNU_DEMANGLING(w) /\ st.expect_return_type = 1
           THEN LET ty == call("do_type", <<Adv(w, 1)>>) IN
                Sig(ty.w, ty.ok, string_prepends(declp, APPEND_BLANK(ty.s)), st)
           ELSE IF HP_DEMANGLING(w) THEN Sig(call("skip_digits", <<Adv(w, 1)>>), st.success, declp, st)
           ELSE Sig(w, 0, declp, st)
      [] c = "H" /\ GNU_DEMANGLING(w) ->
           LET tp == call("demangle_template", <<w, declp, NULLP, 0, 0>>) IN
           Sig(Adv(tp.w, 1), tp.ok, tp.s,
               [st EXCEPT !.expect_return_type =
                             IF tp.w.constructor % 2 = 1 THEN @ ELSE 1])
      [] OTHER ->
           IF gnuish
           THEN LET a == call("demangle_args", <<w, declp>>) IN
                Sig(a.w, a.ok, a.s, [st EXCEPT !.func_done = 1])
           ELSE Sig(w, 0, declp, st)

\* while (success && (**mangled != '\0')) of demangle_signature; w0 and
\* declp are the state the previous iteration left
demangle_signature_loop(w0, declp, st) ==
    LET w == Tick(w0)
        sw == call("signature_case", <<w, declp, st>>)
        a == call("demangle_args", <<IF LUCID_DEMANGLING(w) \/ ARM_DEMANGLING(w) \/ EDG_DEMANGLING(w)
                           THEN [forget_types(sw.w) EXCEPT !.shrunk = @ \/ sw.w.typevec # <<>>]
                           ELSE sw.w,
                           sw.s>>)
        it == IF sw.ok # 0 /\ sw.st.expect_func = 1
              THEN Sig(a.w, a.ok, a.s, [sw.st EXCEPT !.func_done = 1, !.expect_func = 0])
              ELSE sw
    IN IF Halted(w) THEN Sig(w, 0, declp, st)
       ELSE IF Cur(w) = NUL THEN Sig(w0, st.success, declp, st)
       ELSE IF it.ok = 0 \/ Halted(it.w) THEN it
       ELSE IF NoProgress(w, it.w) /\ [it.st EXCEPT !.success = 0] = [st EXCEPT !.success = 0]
       THEN Sig([it.w EXCEPT !.diverged = TRUE], 0, it.s, it.st)
       ELSE call("demangle_signature_loop", <<it.w, it.s, [it.st EXCEPT !.success = it.ok]>>)

demangle_signature(w0, declp0) ==
    LET l == call("demangle_signature_loop", <<w0, declp0, SigLocals(1, 0, 0, 0, NoCursor)>>)
        a == IF l.ok # 0 /\ l.st.func_done = 0
                /\ (AUTO_DEMANGLING(l.w) \/ GNU_DEMANGLING(l.w))
             THEN call("demangle_args", <<l.w, l.s>>) ELSE Ret(l.w, l.ok, l.s)
        d1 == IF a.w.static_type # 0
              THEN string_append(a.s, <<" ","s","t","a","t","i","c">>) ELSE a.s
        d2 == IF a.w.type_quals # TYPE_UNQUALIFIED
              THEN string_append(APPEND_BLANK(d1), qualifier_string(a.w.type_quals))
              ELSE d1
    IN IF a.ok # 0 /\ PRINT_ARG_TYPES(a.w) THEN Ret(a.w, a.ok, d2) ELSE a

(* The entry points *)

mop_up(w, declp, success) ==
    [w |-> [forget_types(w) EXCEPT !.tmpl_argvec = NULLV, !.previous_argument = NULLP,
                                   !.live = @ - (IF w.tmpl_argvec # NULLV THEN 1 ELSE 0)
                                              - (IF w.previous_argument # NULLP THEN 1 ELSE 0)],
     ret |-> IF success = 0 THEN NULLP ELSE call("CStr", <<declp>>)]

squangle_mop_up(w) == forget_B_and_K_types(w)

\* a return of internal_cplus_demangle that writes nothing back
keep_pending(x, w0) == x

\* work->constructor = s1; work->destructor = s2; work->static_type = s3;
\* work->type_quals = s4;
restore_saved(x, w0) ==
    [x EXCEPT !.constructor = w0.constructor,
              !.destructor = w0.destructor,
              !.static_type = w0.static_type,
              !.type_quals = w0.type_quals]

\* the cursor of w is the argument `mangled`, which is not NULL
internal_cplus_demangle(w0) ==
    LET w1 == [Tick(w0) EXCEPT !.constructor = 0, !.destructor = 0,
                               !.type_quals = TYPE_UNQUALIFIED, !.dllimported = 0]
        g == IF AUTO_DEMANGLING(w1) \/ GNU_DEMANGLING(w1) THEN call("gnu_special", <<w1, <<>>>>)
             ELSE Ret(w1, 0, <<>>)
        pf == IF g.ok = 0
              THEN call("demangle_prefix",
                        <<[g.w EXCEPT !.residue = @ \/ g.w.m # w1.m \/ g.s # <<>>], g.s>>)
              ELSE g
        sg == IF pf.ok # 0 /\ Cur(pf.w) # NUL THEN call("demangle_signature", <<pf.w, pf.s>>) ELSE pf
        w == sg.w
        decl == IF w.constructor = 2
                THEN string_prepend(sg.s, <<"g","l","o","b","a","l"," ","c","o","n","s","t",
                                            "r","u","c","t","o","r","s"," ","k","e","y","e",
                                            "d"," ","t","o"," ">>)
                ELSE IF w.destructor = 2
                THEN string_prepend(sg.s, <<"g","l","o","b","a","l"," ","d","e","s","t","r",
                                            "u","c","t","o","r","s"," ","k","e","y","e","d",
                                            " ","t","o"," ">>)
                ELSE IF w.dllimported = 1
                THEN string_prepend(sg.s, <<"i","m","p","o","r","t"," ","s","t","u","b"," ",
                                            "f","o","r"," ">>)
                ELSE sg.s
        mu == mop_up(w, decl, IF Halted(w) THEN 0 ELSE sg.ok)
        restore(x, c, d) == [restore_saved(x, w0) EXCEPT
                                      !.left = [constructor |-> c, destructor |-> d]]
    IN IF Halted(w1) \/ Cur(w0) = NUL
       THEN [w |-> restore(w1, w1.constructor, w1.destructor), ret |-> NULLP]
       ELSE [w |-> restore(mu.w,
                           IF w.constructor = 2 THEN 0 ELSE w.constructor,
                           IF w.constructor # 2 /\ w.destructor = 2 THEN 0 ELSE w.destructor),
             ret |-> mu.ret]

\* what a call leaves: the text returned (or NULLP), the context at the
\* return and what the run did
\* lines 589-593: the context of a call, its options with the dialect resolved
enter_v2(mangled_arg, options_arg, fuel) ==
    LET opts == IF options_arg.style = "none"
                THEN [options_arg EXCEPT !.style = current_demangling_style]
                ELSE options_arg
    IN [work_stuff(opts, IF mangled_arg = NULLP THEN <<>> ELSE mangled_arg)
          EXCEPT !.fuel = fuel]

\* lines 595-597: the decode in the context w0 and the release of its tables
finish_v2(w0, mangled_arg) ==
    LET r == IF mangled_arg = NULLP THEN [w |-> w0, ret |-> NULLP]
             ELSE call("internal_cplus_demangle", <<w0>>)
        w == squangle_mop_up(r.w)
    IN [ret |-> r.ret, work |-> w, fuel |-> w.fuel, diverged |-> w.diverged,
        exhausted |-> w.exhausted, oob |-> w.oob, badidx |-> w.badidx, ovf |-> w.ovf,
        raw |-> w.raw, stale |-> w.stale]

cplus_demangle_v2(mangled_arg, options_arg, fuel) ==
    finish_v2(enter_v2(mangled_arg, options_arg, fuel), mangled_arg)

(* A call of one of the functions of the file: f names the function, a holds
   its arguments.  The functions call each other through it. *)
call(f, a) ==
    CASE f = "strlen_from" -> strlen_from(a[1], a[2])
      [] f = "CStr" -> CStr(a[1])
      [] f = "find_from" -> find_from(a[1], a[2], a[3])
      [] f = "span_from" -> span_from(a[1], a[2], a[3])
      [] f = "cspan_from" -> cspan_from(a[1], a[2], a[3])
      [] f = "consume_count_loop" -> consume_count_loop(a[1], a[2], a[3])
      [] f = "consume_count" -> consume_count(a[1])
      [] f = "consume_count_with_underscores" -> consume_count_with_underscores(a[1])
      [] f = "get_count_loop" -> get_count_loop(a[1], a[2], a[3], a[4])
      [] f = "get_count" -> get_count(a[1])
      [] f = "atoi_loop" -> atoi_loop(a[1], a[2], a[3], a[4])
      [] f = "DecDigits" -> DecDigits(a[1])
      [] f = "hex_loop" -> hex_loop(a[1], a[2], a[3])
      [] f = "sscanf_x" -> sscanf_x(a[1])
      [] f = "fund_quals" -> fund_quals(a[1], a[2])
      [] f = "int_width_buf" -> int_width_buf(a[1], a[2])
      [] f = "fund_int_width" -> fund_int_width(a[1], a[2])
      [] f = "demangle_fund_type" -> demangle_fund_type(a[1], a[2])
      [] f = "template_parm_ref" -> template_parm_ref(a[1])
      [] f = "do_type_member" -> do_type_member(a[1], a[2])
      [] f = "do_type_loop" -> do_type_loop(a[1], a[2], a[3], a[4])
      [] f = "do_type_terminal" -> do_type_terminal(a[1], a[2])
      [] f = "do_type" -> do_type(a[1])
      [] f = "do_arg" -> do_arg(a[1])
      [] f = "demangle_args_repeat" -> demangle_args_repeat(a[1], a[2], a[3], a[4], a[5])
      [] f = "demangle_args_loop" -> demangle_args_loop(a[1], a[2], a[3])
      [] f = "demangle_args" -> demangle_args(a[1], a[2])
      [] f = "demangle_nested_args" -> demangle_nested_args(a[1], a[2])
      [] f = "template_template_parm_loop" -> template_template_parm_loop(a[1], a[2], a[3], a[4], a[5])
      [] f = "demangle_template_template_parm" -> demangle_template_template_parm(a[1], a[2])
      [] f = "FirstOperator" -> FirstOperator(a[1])
      [] f = "integral_expression_loop" -> integral_expression_loop(a[1], a[2], a[3])
      [] f = "append_digits" -> append_digits(a[1], a[2])
      [] f = "char_str_digits" -> char_str_digits(a[1], a[2])
      [] f = "demangle_integral_value" -> demangle_integral_value(a[1], a[2])
      [] f = "demangle_copy" -> demangle_copy(a[1], a[2])
      [] f = "value_parm_symbol" -> value_parm_symbol(a[1], a[2], a[3])
      [] f = "demangle_template_value_parm" -> demangle_template_value_parm(a[1], a[2], a[3])
      [] f = "PadTo" -> PadTo(a[1], a[2])
      [] f = "template_args_loop" -> template_args_loop(a[1], a[2], a[3], a[4], a[5], a[6], a[7])
      [] f = "template_name" -> template_name(a[1], a[2], a[3])
      [] f = "demangle_template" -> demangle_template(a[1], a[2], a[3], a[4], a[5])
      [] f = "arm_pt_anchor" -> arm_pt_anchor(a[1], a[2], a[3], a[4])
      [] f = "arm_pt" -> arm_pt(a[1], a[2])
      [] f = "snarf_numeric_literal" -> snarf_numeric_literal(a[1], a[2])
      [] f = "do_hpacc_template_const_value" -> do_hpacc_template_const_value(a[1], a[2])
      [] f = "do_hpacc_template_literal" -> do_hpacc_template_literal(a[1], a[2])
      [] f = "hpacc_template_args" -> hpacc_template_args(a[1], a[2])
      [] f = "cfront_template_args" -> cfront_template_args(a[1], a[2], a[3])
      [] f = "demangle_arm_hp_template" -> demangle_arm_hp_template(a[1], a[2], a[3])
      [] f = "demangle_class_name" -> demangle_class_name(a[1], a[2])
      [] f = "demangle_class" -> demangle_class(a[1], a[2])
      [] f = "recursively_demangle" -> recursively_demangle(a[1], a[2], a[3])
      [] f = "ktype_ref" -> ktype_ref(a[1], a[2])
      [] f = "qualified_count" -> qualified_count(a[1])
      [] f = "qualified_loop" -> qualified_loop(a[1], a[2], a[3], a[4], a[5])
      [] f = "demangle_qualified" -> demangle_qualified(a[1], a[2], a[3], a[4])
      [] f = "vtable_loop" -> vtable_loop(a[1], a[2], a[3])
      [] f = "gnu_special" -> gnu_special(a[1], a[2])
      [] f = "arm_vtable_scan" -> arm_vtable_scan(a[1])
      [] f = "arm_vtable_names" -> arm_vtable_names(a[1], a[2])
      [] f = "arm_special" -> arm_special(a[1], a[2])
      [] f = "OperatorNamed" -> OperatorNamed(a[1])
      [] f = "operator_name" -> operator_name(a[1], a[2], a[3])
      [] f = "demangle_function_name" -> demangle_function_name(a[1], a[2], a[3])
      [] f = "last_separator" -> last_separator(a[1], a[2])
      [] f = "prefix_markers" -> prefix_markers(a[1], a[2])
      [] f = "prefix_leading_underscores" -> prefix_leading_underscores(a[1], a[2], a[3])
      [] f = "demangle_prefix" -> demangle_prefix(a[1], a[2])
      [] f = "skip_to_underscore" -> skip_to_underscore(a[1])
      [] f = "skip_digits" -> skip_digits(a[1])
      [] f = "signature_template" -> signature_template(a[1], a[2], a[3])
      [] f = "signature_function" -> signature_function(a[1], a[2], a[3])
      [] f = "signature_case" -> signature_case(a[1], a[2], a[3])
      [] f = "demangle_signature_loop" -> demangle_signature_loop(a[1], a[2], a[3])
      [] f = "demangle_signature" -> demangle_signature(a[1], a[2])
      [] f = "internal_cplus_demangle" -> internal_cplus_demangle(a[1])
      [] f = "cplus_demangle_v2" -> cplus_demangle_v2(a[1], a[2], a[3])
      [] f = "finish_v2" -> finish_v2(a[1], a[2])

(* The state machine: one call of cplus_demangle_v2 by a client and the
   release of its result.  The arguments of the call and the memory that
   follows the input's terminator are chosen in Init. *)

\* the longest generated argument list
MaxArgs == 2

\* mangled names of every production of the grammar
Corpus ==
    { <<"f","o","o","_","_","1","A","i">>,
      <<"f","o","o","_","_","1","A","f","e">>,
      <<"n","o","t","_","m","a","n","g","l","e","d">>,
      <<"f","_","_","1","1","A","_","_","p","t","_","_","3","_","_","i">>,
      <<"_","_","t","h","u","n","k","_","4">>,
      <<"f","o","o","_","_","H","1","Z","i">>,
      <<"f","_","_","K","_","4","2","9","4","9","6","7","2","9","4","_">>,
      <<"f","_","_","t","1","A","4","2","9","4","9","6","7","2","9","7","_","Z","i">>,
      <<"_","_","o","p","z","_","_","F","i">>,
      <<"f","_","_","F","i","_","i","n","1">>,
      <<"f","_","_","F","i","n","1">>,
      <<"f","_","_","F","i","n","2">>,
      <<"f","_","_","F","n","1">>,
      <<"_">>,
      <<"_","v","t">>,
      <<"f","_","_","F","e">>,
      <<"f","_","_","F","P","c">>,
      <<"f","_","_","F","t","6","J","A","r","r","a","y","1","Z","i">>,
      <<"_","_","v","t","b","l","_","_","1","A","_","_","1","B">>,
      <<"f","_","_","Q","2","1","A","1","B","i">>,
      <<"_","v","t","$","1","A">>,
      <<"_","$","_","1","A">>,
      <<"_","_","1","A","i">>,
      <<"f","_","_","S","1","A","i">>,
      <<"f","_","_","C","1","A","i">>,
      <<"_","_","p","l","_","_","1","A","i">>,
      <<"f","_","_","F","P","F","i","_","v">>,
      <<"f","_","_","t","1","A","1","Z","i","i">>,
      <<"_","1","A","$","x">>,
      <<"_","_","t","i","1","A">>,
      <<"_","G","L","O","B","A","L","_","$","I","$","f","o","o">>,
      <<"f","_","_","F","i","T","1">>,
      <<"f","_","_","F","i","T","9">>,
      <<"f","_","_","1","A">>,
      <<"f","o","o","_","_","S","1","A">>,
      <<"_","$","_","Q","2","1","A","1","B">>,
      <<"_","_","t","h","u","n","k","_","4","_","f","o","o","_","_","1","A","i">>,
      <<"_","_","t","h","u","n","k","_","4","_","f","_","_","1","A","K","1">>,
      <<"f","_","_","1","A","K","1">>,
      <<"f","_","_","t","1","A","0">>,
      <<"f","_","_","F","t","1","A","1","Z","z","B","0">>,
      <<"f","_","_","F","t","1","A","1","Z","i","B","0">>,
      <<"f","_","_","F","i","n","1","c","T","1">>,
      <<"f","_","_","F","P","F","i","n","1","_","v","T","0">>,
      <<"f","_","_","H","1","Z","i","_","H","1","Z","c","_","X","0","1","_","i">>,
      <<"f","_","_","H","1","Z","i","_","t","1","A","1","Z","X","0","1">>,
      <<"_","_","Q","2","1","A","1","B","i">>,
      <<"_","_","Q","2","1","A","K","0","i">>,
      <<"_","$","_","Q","2","1","A","K","0">>,
      <<"_","_","Q","2","1","A","t","1","B","1","Z","i","i">>,
      <<"_","_","c","t","_","_","Q","2","1","A","1","B","F","i">>,
      <<"_","_","d","t","_","_","Q","2","1","A","1","B","F","v">>,
      <<"f","_","_","F","P","F","_","v">>,
      <<"f","_","_","F","P","F","v","_","v">>,
      <<"f","_","_","F","P","M","1","A","F","_","v">>,
      <<"f","_","_","F","P">>,
      <<"f","_","_","F","P","F","i","_">>,
      <<"f","_","_","F","i","P">>,
      <<"f","_","_","H","1","Z","i","_","t","1","A","1","i","Y","5","1","_","i">>,
      <<"f","_","_","H","1","Z","i","_","t","1","A","1","i","Y","0","1","_","i">>,
      <<"f","_","_","H","1","Z","i","_","A","Y","5","1","_","i","_","i">>,
      <<"f","_","_","H","1","Z","i","_","A","Y","0","1","_","i","_","i">>,
      <<"f","o","o","_","_","b","a","r","_","_","F","i">>,
      <<"_","_","f","o","o","_","_","b","a","r","_","_","F","i">>,
      <<"_","_","a","_","_","_","F","i">>,
      <<"f","o","o","_","_","_","F","i">>,
      <<"_","_","t","h","u","n","k","_","4","_","f","o","o","_","_","C","1","A">>,
      <<"_","_","t","h","u","n","k","_","4","_","_","_","1","A","i">>,
      <<"f","_","_","F","P","F","i","_","v","T","0">>,
      <<"f","_","_","1","A","P","F","i","T","1","_","v","i">>,
      <<"f","_","_","F","P","F","i","T","5","_","v">>,
      <<"f","_","_","F","i","P","M","1","A","F","i","_","v","N","1","0">>,
      <<"f","_","_","t","1","A","1","Z","i","T","0">>,
      <<"f","_","_","1","A","T","0">>,
      <<"_","3","f","o","o","_","_","1","A","$","x">>,
      <<"_","v","t","$","f","o","o","_","_","1","A","i">>,
      <<"_","1","A","_","_","f","_","_","F","i","$">>,
      <<"f","o","o","_","_","1","A","X","S","P","1","2">>,
      <<"f","_","_","1","A","X","U","P","7">>,
      <<"f","_","_","1","1","A","_","_","p","t","_","_","3","_","L","1">>,
      <<"f","_","_","H","1","Z","i","_","H","1","Z","i","_","i">>,
      <<"_","$","_","t","1","A","1","Z","i">>,
      <<"f","o","o","_","_","C","1","A">>,
      <<"b","a","r","_","_","3","f","o","o","i">> }

\* the tokens of generated argument lists: int, pointer to, ellipsis
ArgLetters == {"i", "P", "e"}

ArgLists == UNION {[1..k -> ArgLetters] : k \in 0..MaxArgs}

\* foo__1A<args> (a member of class A) and f__F<args> (a global function)
Heads == { <<"f","o","o","_","_","1","A">>, <<"f","_","_","F">> }

Generated == {h \o a : h \in Heads, a \in ArgLists}

\* the class names of generated destructors, with their length prefix
DtorClasses == { [len |-> <<"1">>, name |-> <<"A">>], [len |-> <<"2">>, name |-> <<"A","B">>] }

\* the argument tokens that follow the class of a generated destructor
DtorArgs == ArgLists \cup { <<"1","B">>, <<"1","B","i">> }

\* _<marker>_<len><class><args>: the destructor of a class
Dtor(mk, c, a) == <<"_", mk, "_">> \o c.len \o c.name \o a

Destructors == {Dtor(mk, c, a) : mk \in cplus_markers, c \in DtorClasses, a \in DtorArgs}

\* const char *mangled: a name, the empty string or a null pointer
Inputs == Corpus \cup Generated \cup Destructors \cup {<<>>, NULLP}

\* int options: DMGL_PARAMS, DMGL_ANSI, DMGL_JAVA and the style bits
\* ("none": no style bit set)
Options == [params : BOOLEAN, ansi : BOOLEAN, java : BOOLEAN, style : Styles \cup {"none"}]

\* what the memory after the terminator may hold
Memory == {<<NUL>>, <<"_">>}

Init ==
    /\ arg_mangled \in Inputs
    /\ arg_options \in Options
    /\ beyond \in Memory
    /\ current_demangling_style = "gnu"
    /\ pc = "idle"
    /\ returned = NULLP
    /\ char_str = <<NUL, NUL>>
    /\ thread = <<>>

\* ret = cplus_demangle_v2 (mangled, options); a call whose loop never
\* ends does not return
Call ==
    /\ pc = "idle"
    /\ returned' = call("cplus_demangle_v2", <<arg_mangled, arg_options, MaxSteps>>)
    /\ pc' = IF returned'.diverged THEN "hung" ELSE "done"
    /\ char_str' = IF returned'.work.char_str0 = NUL THEN char_str
                   ELSE <<returned'.work.char_str0, NUL>>
    /\ UNCHANGED <<arg_mangled, arg_options, beyond, current_demangling_style, thread>>

\* free (ret), by the caller
Release ==
    /\ pc = "done"
    /\ pc' = "freed"
    /\ UNCHANGED <<arg_mangled, arg_options, beyond, current_demangling_style, returned,
                   char_str, thread>>

Next == Call \/ Release

Spec == Init /\ [][Next]_vars

(* Texts used by the properties *)

RECURSIVE Dots(_)
\* s with each "::" replaced by "."
Dots(s) ==
    IF Len(s) < 2 THEN s
    ELSE IF s[1] = ":" /\ s[2] = ":" THEN <<".">> \o Dots(SubSeq(s, 3, Len(s)))
    ELSE <<s[1]>> \o Dots(Tail(s))

\* pat occurs in s at position i
OccursAt(pat, s, i) == i >= 1 /\ i + Len(pat) - 1 <= Len(s) /\ SubSeq(s, i, i + Len(pat) - 1) = pat
Occurs(pat, s) == \E i \in 1..Len(s) : OccursAt(pat, s, i)
IsPrefix(a, b) == Len(a) <= Len(b) /\ SubSeq(b, 1, Len(a)) = a

\* the call has been made, whether or not it returned
Called == pc # "idle"

\* what the same input gives under other options
Decode(opts) == call("cplus_demangle_v2", <<arg_mangled, opts, MaxSteps>>)

\* the style a call uses
StyleUsed == IF arg_options.style = "none" THEN current_demangling_style ELSE arg_options.style

In_foo_1Ai == <<"f","o","o","_","_","1","A","i">>
In_foo_1Afe == <<"f","o","o","_","_","1","A","f","e">>
In_f_Fe == <<"f","_","_","F","e">>
In_f_Fin2 == <<"f","_","_","F","i","n","2">>
Out_A_foo == <<"A",":",":","f","o","o">>
Out_A_foo_int == <<"A",":",":","f","o","o","(","i","n","t",")">>
Out_A_dot_foo_int == <<"A",".","f","o","o","(","i","n","t",")">>
Out_A_foo_float_ellipsis == <<"A",":",":","f","o","o","(","f","l","o","a","t",",",".",".",".",")">>
Out_f_ellipsis == <<"f","(",".",".",".",")">>
Out_f_int_int_int == <<"f","(","i","n","t",","," ","i","n","t",","," ","i","n","t",")">>

(* C1: for every input and every dialect the call terminates: no loop and no
   recursion of the decoder goes on without consuming input, counting down or
   failing.  As stated (refuted by an ARM/HP template whose arguments do not
   advance the cursor): no call is left hanging. *)
C1_EveryCallReturns == pc # "hung"

(* C2: during a decode the cursor is never advanced past the input's
   terminator and no byte beyond it is read.  As stated: a call never
   touches memory after the terminator. *)
C2_NeverPastTerminator == Called => ~returned.oob

(* C3: a back-reference whose index is not below the table's current length
   makes the decode fail, and no table (typevec, btypevec, ktypevec,
   tmpl_argvec) is indexed outside [0, length).  As stated: a call never
   indexes a table out of its bounds. *)
C3_TablesIndexedInBounds == Called => ~returned.badidx

(* C4: a decimal count whose value does not fit makes the decode fail, the
   accumulated value never wraps around silently.  As stated: a call in which
   a count wrapped around returns failure. *)
C4_WrappedCountFails == (Called /\ returned.ovf) => returned.ret = NULLP

(* C5: when a production fails inside a top-level decode, the top-level call
   returns failure; raw input is never put in place of a failed sub-parse.
   As stated: a call in which a failed sub-parse was passed over returns
   failure. *)
C5_FailurePropagates == (Called /\ returned.raw) => returned.ret = NULLP

(* C6: a repeat code met when the current argument list has cached no
   argument makes the decode fail.  As stated: a call in which a repeat
   replayed the argument cached by an earlier list returns failure. *)
C6_RepeatNeedsCachedArgument == (Called /\ returned.stale) => returned.ret = NULLP

(* C7: decoding with and without the Java option gives two failures or two
   successes.  Where the text without the option holds no pointer star and
   the input names neither a JArray template nor an ARM virtual table, the
   text with the option is the text without it with each "::" replaced by
   ".". *)
Lit_JArray == <<"J","A","r","r","a","y">>
Lit_vtbl == <<"_","_","v","t","b","l","_","_">>
JavaDropsNothing(plain) ==
    /\ ~Occurs(<<"*">>, plain)
    /\ ~Occurs(Lit_JArray, arg_mangled)
    /\ ~Occurs(Lit_vtbl, arg_mangled)
JavaRelation(plain, java) ==
    /\ (plain = NULLP) <=> (java = NULLP)
    /\ (plain # NULLP /\ JavaDropsNothing(plain)) => java = Dots(plain)
JavaRelationStated(plain, java) ==
    /\ (plain = NULLP) <=> (java = NULLP)
    /\ plain # NULLP => java = Dots(plain)
Lit_static == <<" ","s","t","a","t","i","c">>
ParamsRelation(with, without) ==
    /\ (with = NULLP) <=> (without = NULLP)
    /\ with # NULLP => IsPrefix(without, with)
    /\ (with # NULLP /\ with # without) => with[Len(without) + 1] \in {"(", " "}
    /\ with # NULLP => ~Occurs(Lit_static, without)
    /\ (with # NULLP /\ arg_mangled \in Generated) => ~Occurs(<<"(">>, without)
    /\ (with # NULLP /\ arg_mangled \in Generated \ Heads) =>
           Occurs(<<"(">>, with) /\ with[Len(with)] = ")"
    /\ (arg_mangled = In_foo_1Ai /\ StyleUsed \in {"gnu", "auto", "edg"} /\ ~arg_options.java) =>
           with = Out_A_foo_int /\ without = Out_A_foo
\* C8: the parameter list, " static" and the qualifier are printed only with
\* the option to show parameter types
C8_ParamsOnlyWithOption ==
    (pc = "done" /\ arg_options.params) =>
        ParamsRelation(returned.ret, Decode([arg_options EXCEPT !.params = FALSE]).ret)

\* C8 happens: foo__1Ai decoded with the option, by the default style
C8_Witness ==
    /\ pc = "done" /\ arg_options.params /\ arg_options.style = "none"
    /\ arg_mangled = In_foo_1Ai
    /\ returned.ret = Out_A_foo_int
    /\ Decode([arg_options EXCEPT !.params = FALSE]).ret = Out_A_foo

(* C9: with parameter types shown, an argument list that ends with the
   ellipsis marker prints "..." last, before the closing parenthesis, with
   "," and no space before it exactly when an argument precedes it, and
   ordinary arguments are separated by ", ": in a text returned every "..."
   stands after "(" or after an argument's "," and before ")", every ","
   is followed by a space or by "...", foo__1Afe gives A::foo(float,...) and
   f__Fe gives f(...). *)
EllipsisPlaced(s, i) ==
    /\ i > 1 /\ s[i - 1] \in {"(", ","}
    /\ s[i - 1] = "," => (i > 2 /\ s[i - 2] # "(")
    /\ i + 3 <= Len(s) /\ s[i + 3] = ")"
CommaPlaced(s, i) ==
    i < Len(s) /\ (s[i + 1] = " " \/ OccursAt(Lit_ellipsis, s, i + 1))
ArgsPrinted(s) ==
    /\ \A i \in 1..Len(s) : OccursAt(Lit_ellipsis, s, i) => EllipsisPlaced(s, i)
    /\ \A i \in 1..Len(s) : s[i] = "," => CommaPlaced(s, i)
    /\ (arg_mangled = In_foo_1Afe /\ StyleUsed \in {"gnu", "auto", "edg"} /\ ~arg_options.java) =>
           s = Out_A_foo_float_ellipsis
    /\ arg_mangled = In_f_Fe => s = Out_f_ellipsis
    /\ arg_mangled = In_f_Fin2 => s = Out_f_int_int_int
\* C9: every text returned with parameter types shown places "...", "," and
\* ", " as stated
C9_EllipsisAndSeparators ==
    (pc = "done" /\ arg_options.params /\ returned.ret # NULLP) => ArgsPrinted(returned.ret)

\* C9 happens: foo__1Afe decoded with parameter types shown
C9_Witness ==
    /\ pc = "done" /\ arg_options.params
    /\ arg_mangled = In_foo_1Afe
    /\ returned.ret = Out_A_foo_float_ellipsis

(* C10: an input with no two consecutive underscores that starts with none of
   the special forms gives failure, and so does an empty or absent input. *)
SpecialForm(s) ==
    \/ Len(s) >= 3 /\ s[1] = "_" /\ s[2] \in cplus_markers /\ s[3] = "_"
    \/ Len(s) >= 4 /\ SubSeq(s, 1, 3) = <<"_","v","t">> /\ s[4] \in cplus_markers
    \/ Len(s) >= 2 /\ s[1] = "_" /\ (isdigit(s[2]) \/ s[2] \in {"Q", "t"})
                   /\ \E i \in 3..Len(s) : s[i] \in cplus_markers
    \/ IsPrefix(<<"_","_","t">>, s)
    \/ Len(s) >= 10 /\ SubSeq(s, 1, 8) = <<"_","G","L","O","B","A","L","_">> /\ s[9] \in cplus_markers
                    /\ s[10] \in {"I", "D"}
NoSeparator(s) == s = NULLP \/ (~Occurs(<<"_", "_">>, s) /\ ~SpecialForm(s))
\* C10 as stated: a call with such an input returns failure
C10_UnmangledNameFails == (Called /\ NoSeparator(arg_mangled)) => returned.ret = NULLP

(* C11: under the GNU or auto dialect _<marker>_<len><class> decodes to
   <class>::~<class>, followed by the parameter list when it is requested: the
   pending destructor set by gnu_special is consumed once, by the first class
   name of the signature, and is zero afterwards, so that a class name that
   follows is an argument and not a second destructor. *)
Tildes(s) == Cardinality({i \in 1..Len(s) : s[i] = "~"})
DestructorOf(c) == c.name \o SCOPE_STRING([options |-> arg_options]) \o <<"~">> \o c.name
DestructorNamed(mk, c, a, ret, left) ==
    /\ left.destructor = 0
    /\ a = <<>> => ret = DestructorOf(c) \o (IF arg_options.params THEN <<"(","v","o","i","d",")">>
                                              ELSE <<>>)
    /\ ret # NULLP =>
         /\ IsPrefix(DestructorOf(c), ret)
         /\ Tildes(ret) = 1
         /\ IF arg_options.params
            THEN Len(ret) > Len(DestructorOf(c)) + 1 /\ ret[Len(DestructorOf(c)) + 1] = "("
                 /\ ret[Len(ret)] = ")"
            ELSE ret = DestructorOf(c)
\* C11: every destructor decoded under the GNU or auto dialect is named once
C11_DestructorConsumedOnce ==
    (pc = "done" /\ StyleUsed \in {"gnu", "auto"}) =>
        \A mk \in cplus_markers, c \in DtorClasses, a \in DtorArgs :
            arg_mangled = Dtor(mk, c, a) =>
                DestructorNamed(mk, c, a, returned.ret, returned.work.left)

\* C11 happens: _$_1A1B decoded with its parameter list, B being an argument
C11_Witness ==
    /\ pc = "done" /\ arg_options.style = "gnu" /\ arg_options.params /\ ~arg_options.java
    /\ arg_mangled = Dtor("$", [len |-> <<"1">>, name |-> <<"A">>], <<"1","B">>)
    /\ returned.ret = <<"A",":",":","~","A","(","B",")">>
    /\ returned.work.left.destructor = 0

(* C12: every nested decode of an embedded name runs on a context of its own,
   whose tables and repeat cache start empty, and leaves the tables and the
   cache of the decode that started it as they were.  As stated: in no call
   does a nested decode change the tables of its caller. *)
C12_NestedDecodeOwnsItsTables == Called => ~returned.work.shared

(* C13: on every exit of a top-level decode whatever the call allocated has
   been released, but for the text returned.  As stated, for the objects a
   context owns through previous_argument and tmpl_argvec: when the call has
   returned none of them is still allocated. *)
C13_NothingLeftAllocated == pc \in {"done", "freed"} => returned.work.live = 0

(* Two calls at the same time.  Each thread is inside a call of
   cplus_demangle_v2 under the HP dialect, at the integral template constant
   its input holds, and runs do_hpacc_template_const_value one statement at a
   time; char_str is the one buffer both threads store into and read from. *)

Threads == {1, 2}

\* the integral constants of the inputs: S|U, P|N|M, digits
HPConstants ==
    { <<"S","P","1","2">>, <<"U","P","7">>, <<"S","N","3","4">>, <<"S","M">>, <<"S","P">> }

\* the options of the concurrent calls
HPOptions == [params |-> TRUE, ansi |-> TRUE, java |-> FALSE, style |-> "hp"]

\* the locals of do_hpacc_template_const_value in one thread
ConstValueFrame(lit) ==
    [work |-> work_stuff(HPOptions, lit), result |-> <<>>, unsigned_const |-> FALSE,
     at |-> "entry", ok |-> 0]

InitThreads ==
    /\ arg_mangled = <<>>
    /\ arg_options = HPOptions
    /\ beyond = <<NUL>>
    /\ current_demangling_style = "gnu"
    /\ pc = "threads"
    /\ returned = NULLP
    /\ char_str = <<NUL, NUL>>
    /\ thread \in [Threads -> {ConstValueFrame(lit) : lit \in HPConstants}]

\* lines 2880-2904: the sign letter, up to the test for a digit
ConstValueEntry(t) ==
    LET f == thread[t]
        w == Adv(f.work, 1)
        c == Cur(w)
        g == [f EXCEPT !.unsigned_const = Cur(f.work) = "U"]
    IN /\ f.at = "entry"
       /\ thread' = [thread EXCEPT ![t] =
             CASE Cur(f.work) \notin {"U", "S"} -> [g EXCEPT !.at = "returned"]
               [] Cur(f.work) \in {"U", "S"} /\ c = "M" ->
                    [g EXCEPT !.work = Adv(w, 1),
                              !.result = string_append(@, <<"-","2","1","4","7","4","8","3","6","4","8">>),
                              !.ok = 1, !.at = "returned"]
               [] Cur(f.work) \in {"U", "S"} /\ c \in {"N", "P"} ->
                    [g EXCEPT !.work = Adv(w, 1),
                              !.result = IF c = "N" THEN Append(@, "-") ELSE @,
                              !.at = IF isdigit(Peek(w, 1)) THEN "store" ELSE "returned"]
               [] OTHER -> [g EXCEPT !.work = w, !.at = "returned"]]
       /\ UNCHANGED <<arg_mangled, arg_options, beyond, current_demangling_style, pc,
                      returned, char_str>>

\* line 2910: char_str[0] = **mangled;
StoreDigit(t) ==
    /\ thread[t].at = "store"
    /\ char_str' = [char_str EXCEPT ![1] = Cur(thread[t].work)]
    /\ thread' = [thread EXCEPT ![t].at = "append"]
    /\ UNCHANGED <<arg_mangled, arg_options, beyond, current_demangling_style, pc, returned>>

\* lines 2911-2912: string_append (result, char_str); (*mangled)++; and the
\* test of the loop
AppendDigit(t) ==
    LET f == thread[t]
        w == Adv(f.work, 1)
    IN /\ f.at = "append"
       /\ thread' = [thread EXCEPT ![t] =
             [f EXCEPT !.work = w,
                       !.result = string_append(@, CStr(char_str)),
                       !.at = IF isdigit(Cur(w)) THEN "store" ELSE "suffix"]]
       /\ UNCHANGED <<arg_mangled, arg_options, beyond, current_demangling_style, pc,
                      returned, char_str>>

\* lines 2915-2921: the suffix of an unsigned constant, and the return
ConstValueReturn(t) ==
    LET f == thread[t] IN
    /\ f.at = "suffix"
    /\ thread' = [thread EXCEPT ![t] =
          [f EXCEPT !.result = IF f.unsigned_const THEN string_append(@, <<"U">>) ELSE @,
                    !.ok = 1, !.at = "returned"]]
    /\ UNCHANGED <<arg_mangled, arg_options, beyond, current_demangling_style, pc,
                   returned, char_str>>

NextThreads ==
    \E t \in Threads :
        ConstValueEntry(t) \/ StoreDigit(t) \/ AppendDigit(t) \/ ConstValueReturn(t)

SpecThreads == InitThreads /\ [][NextThreads]_vars

(* C14: two calls that run at the same time in two threads access no shared
   location that one of them writes, so that under every interleaving each
   gives what it gives alone.  As stated, for the HP integral constants: a
   thread that has returned from do_hpacc_template_const_value holds the
   result the function gives for its input when it runs alone. *)
AloneConstValue(f) ==
    do_hpacc_template_const_value(work_stuff(HPOptions, f.work.m.s), <<>>)
C14_ThreadsDoNotInterfere ==
    \A t \in DOMAIN thread :
        thread[t].at = "returned" =>
            /\ thread[t].ok = AloneConstValue(thread[t]).ok
            /\ thread[t].result = AloneConstValue(thread[t]).s

(* A call during which the embedding application changes the default
   dialect.  The call is followed in two steps: its entry, which builds the
   context, and the decode in that context; thread[1] holds the context
   between the two, with the default the entry found. *)

In_f_tA_ptr_foo == <<"f","_","_","t","1","A","1","P","i","8","f","o","o","_","_","1","B","i">>
Out_A_ptr_B_foo == <<"A","<","&","B",":",":","f","o","o","(","i","n","t",")",">",":",":",
                     "f","(","v","o","i","d",")">>
Out_A_ptr_raw == <<"A","<","&","f","o","o","_","_","1","B","i",">",":",":",
                   "f","(","v","o","i","d",")">>

\* names whose decode depends on the dialect, two of them with a nested decode
DefaultCorpus ==
    { In_foo_1Ai, In_f_tA_ptr_foo,
      <<"f","_","_","1","A","X","A","7","f","o","o","_","_","F","i">>, NULLP }

InitDefault ==
    /\ arg_mangled \in DefaultCorpus
    /\ arg_options \in {o \in Options : o.params /\ o.ansi /\ ~o.java}
    /\ beyond = <<NUL>>
    /\ current_demangling_style \in Styles
    /\ pc = "idle"
    /\ returned = NULLP
    /\ char_str = <<NUL, NUL>>
    /\ thread = <<>>

\* lines 589-593 of cplus_demangle_v2
Enter ==
    /\ pc = "idle"
    /\ thread' = <<[work |-> enter_v2(arg_mangled, arg_options, MaxSteps),
                    default |-> current_demangling_style]>>
    /\ pc' = "entered"
    /\ UNCHANGED <<arg_mangled, arg_options, beyond, current_demangling_style, returned,
                   char_str>>

\* current_demangling_style = style; by the application
SetDefault ==
    /\ \E style \in Styles \ {current_demangling_style} : current_demangling_style' = style
    /\ UNCHANGED <<arg_mangled, arg_options, beyond, pc, returned, char_str, thread>>

\* lines 595-597 of cplus_demangle_v2
Finish ==
    /\ pc = "entered"
    /\ returned' = call("finish_v2", <<thread[1].work, arg_mangled>>)
    /\ pc' = IF returned'.diverged THEN "hung" ELSE "done"
    /\ char_str' = IF returned'.work.char_str0 = NUL THEN char_str
                   ELSE <<returned'.work.char_str0, NUL>>
    /\ UNCHANGED <<arg_mangled, arg_options, beyond, current_demangling_style, thread>>

NextDefault == Enter \/ SetDefault \/ Finish

SpecDefault == InitDefault /\ [][NextDefault]_vars

(* C15: the default dialect is read at the entry of cplus_demangle_v2 only,
   and only when the flags select no dialect; a selected dialect is never
   overridden; the dialect is kept in the context and passed unchanged to
   every nested decode, so that a change of the default during a call changes
   neither the dialect of the call nor that of its nested decodes. *)
DialectAtEntry ==
    IF arg_options.style = "none" THEN thread[1].default ELSE arg_options.style
DefaultReadAtEntryOnly ==
    /\ thread[1].work.options.style = DialectAtEntry
    /\ pc = "done" =>
         /\ returned.work.options.style = DialectAtEntry
         /\ ~returned.work.restyled
         /\ returned.ret = Decode([arg_options EXCEPT !.style = DialectAtEntry]).ret
         /\ arg_mangled = In_f_tA_ptr_foo =>
                returned.ret = IF DialectAtEntry \in {"gnu", "auto", "edg"}
                               THEN Out_A_ptr_B_foo ELSE Out_A_ptr_raw
\* C15: whatever the default becomes after the entry, the call and its nested
\* decodes use the dialect resolved at the entry
C15_DefaultReadAtEntryOnly == pc \in {"entered", "done"} => DefaultReadAtEntryOnly

\* C15 happens: a call without a dialect entered under the default gnu has
\* decoded a nested name after the default became lucid
C15_Witness ==
    /\ pc = "done" /\ arg_options.style = "none"
    /\ thread[1].default = "gnu" /\ current_demangling_style = "lucid"
    /\ arg_mangled = In_f_tA_ptr_foo
    /\ returned.ret = Out_A_ptr_B_foo

(* C16: with the option for ANSI qualifiers unset no const, volatile or
   __restrict is printed, on an argument type or after the parameter list of
   a member function, and no void is printed for an empty parameter list.
   As stated: a text returned by a call without the option holds none of
   them. *)
Lit_const == <<"c","o","n","s","t">>
Lit_volatile == <<"v","o","l","a","t","i","l","e">>
Lit_restrict == <<"_","_","r","e","s","t","r","i","c","t">>
Lit_void_list == <<"(","v","o","i","d",")">>
NoAnsiText(s) ==
    /\ ~Occurs(Lit_const, s) /\ ~Occurs(Lit_volatile, s) /\ ~Occurs(Lit_restrict, s)
    /\ ~Occurs(Lit_void_list, s)
C16_AnsiControlsQualifiersAndVoid ==
    (pc = "done" /\ ~arg_options.ansi /\ returned.ret # NULLP) => NoAnsiText(returned.ret)

(* C17: when gnu_special fails it contributes nothing to the result: the
   prefix scan that follows starts from the original input and an empty
   declaration.  As stated: a call in which the prefix scan started from a
   cursor gnu_special had advanced, or from text it had appended, returns
   failure. *)
C17_FailedSpecialLeavesNothing == (Called /\ returned.work.residue) => returned.ret = NULLP

(* C18: within one top-level call, under every dialect, the type table and
   the two squangling tables only grow: before the final teardown no entry
   is removed.  As stated: no call empties a type table that holds entries
   while demangle_signature is still decoding. *)
C18_TablesOnlyGrow == Called => ~returned.work.shrunk

(* C19: demangle_nested_args leaves the type table as it found it, whether
   it succeeds or fails, runs its argument list on an empty repeat cache
   and a zero repeat counter, and returns with the forgetting depth, the
   cached previous argument and the repeat counter it was entered with. *)
Lit_fn_ptr_twice ==
    <<"f","(","v","o","i","d"," ","(","*",")","(","i","n","t",")",","," ",
      "v","o","i","d"," ","(","*",")","(","i","n","t",")",")">>

\* C19: no nested argument list returns with a changed frame, and a back
\* reference after one counts the caller's entries only
C19_NestedArgsFrame ==
    Called =>
        /\ ~returned.work.unframed
        /\ (arg_mangled = <<"f","_","_","F","P","F","i","_","v","T","0">>
              /\ arg_options.style = "gnu" /\ arg_options.params /\ ~arg_options.java)
           => returned.ret = Lit_fn_ptr_twice

\* C19: a nested argument list was parsed inside a successful decode whose
\* later back reference names the function pointer itself
C19_Witness ==
    /\ pc = "done"
    /\ returned.work.nested
    /\ arg_mangled = <<"f","_","_","F","P","F","i","_","v","T","0">>
    /\ returned.ret = Lit_fn_ptr_twice

(* C20: internal_cplus_demangle returns, on every path, with the
   constructor counter, the destructor counter, the static flag and the
   qualifier accumulator it was entered with, so the decode of a thunk's
   target leaves the enclosing decode's pending state alone. *)
Lit_thunk_foo_const ==
    <<"v","i","r","t","u","a","l"," ","f","u","n","c","t","i","o","n"," ","t","h","u","n","k"," ",
      "(","d","e","l","t","a",":","-","4",")"," ","f","o","r"," ",
      "A",":",":","f","o","o","(","v","o","i","d",")"," ","c","o","n","s","t">>

\* C20: every call ends with the pending state of a fresh context, and so
\* does every nested decode inside it
C20_PendingStateRestored ==
    Called => /\ Pending(returned.work) = PendingZero
              /\ ~returned.work.unrestored

\* C20: a thunk whose target is a const member function was decoded; the
\* target's decode had set the qualifier accumulator
C20_Witness ==
    /\ pc = "done"
    /\ arg_mangled = <<"_","_","t","h","u","n","k","_","4","_","f","o","o","_","_","C","1","A">>
    /\ returned.ret = Lit_thunk_foo_const
    /\ Pending(returned.work) = PendingZero

(* C21: the prefix scan puts the boundary between name and signature at
   the last "__" of the input for every dialect but ARM and HP, and at the
   first run of underscores for ARM and HP; in a run of three or more
   underscores the boundary is the last two of the run. *)
\* the positions of s at which "__" starts
Separators(s) == {k \in 1..(Len(s) - 1) : s[k] = "_" /\ s[k + 1] = "_"}

LastSeparator(s) == CHOOSE k \in Separators(s) : \A j \in Separators(s) : j <= k

\* the underscores a name starts with
Leading(s) == {k \in 1..Len(s) : \A j \in 1..k : s[j] = "_"}

\* the last two underscores of the first run of two or more that follows
\* the underscores the name starts with
FirstRunSeparator(s) ==
    LET inner == Separators(s) \ Leading(s)
        first == CHOOSE k \in inner : \A j \in inner : k <= j
    IN CHOOSE k \in Separators(s) :
           /\ k >= first
           /\ \A j \in first..(k + 1) : s[j] = "_"
           /\ (k + 2 > Len(s) \/ s[k + 2] # "_")

\* C21: the boundary a call hands to demangle_function_name is the one the
\* dialect of the call prescribes
C21_BoundaryIsLastSeparator ==
    (pc = "done" /\ arg_mangled # NULLP /\ returned.work.boundary # 0
       /\ Separators(arg_mangled) \ Leading(arg_mangled) # {})
    => returned.work.boundary =
         IF returned.work.options.style \in {"arm", "hp"}
         THEN FirstRunSeparator(arg_mangled) ELSE LastSeparator(arg_mangled)

(* C22: when a template value argument, an array bound or an operand of an
   operator expression is a template-parameter reference 'Y' whose index is
   not below the length of the active template-argument vector, or is
   malformed, the whole decode fails.  As stated: a call in which
   demangle_template_value_parm returned its error result returns
   failure. *)
C22_BadParameterReferenceFails == (Called /\ returned.work.yfail) => returned.ret = NULLP

(* C23: do_type succeeds only when, after the declarator prefixes, one
   terminal production was parsed and consumed; where the input ends, or an
   '_' stands, in the place of the terminal type it fails and does not
   return an empty type.  As stated: a call in which do_type accepted an
   empty terminal type returns failure. *)
C23_TerminalTypeRequired == (Called /\ returned.work.hollow) => returned.ret = NULLP

(* C24: when parameter types are shown, every argument list of no
   arguments and no ellipsis is printed as '(void)', at the top level and
   in nested function and member-pointer types, whichever terminator ended
   the list.  As stated: no successful call has printed such a list as
   '()'. *)
C24_EmptyListIsVoid ==
    (pc = "done" /\ arg_options.params /\ returned.ret # NULLP) => ~returned.work.bare

(* C25: a qualified name parsed as a function name while a constructor or
   destructor is pending is printed as the joined components, the scope
   separator and the final component's unqualified name again ('~' before
   it for a destructor), whatever the final component is: a class, a
   template, a 'K' back reference or an EDG component.  As stated: no
   successful call has echoed an empty name after the separator. *)
C25_FinalComponentEchoed == (Called /\ returned.ret # NULLP) => ~returned.work.unnamed

(* C26: every run of demangle_template has a template-argument vector of
   its own; a second function-template header in the same decode neither
   rebinds the references the first resolved nor loses the first vector
   without releasing it.  As stated: no call allocates the vector of a
   template header over a vector the context still holds. *)
C26_OneVectorPerTemplate == Called => ~returned.work.overwritten

(* consume_count and consume_count_with_underscores on their own: the
   cursor is set on a text that starts with a count, and one of the two is
   called once *)

\* decimal numerals around the limits of int and of uint32_t
CountNumerals ==
    { <<>>, <<"0">>, <<"7">>, <<"1","2">>, <<"0","0","7">>,
      <<"9","9","9","9","9","9","9","9","9">>,
      <<"2","1","4","7","4","8","3","6","4","7">>,
      <<"2","1","4","7","4","8","3","6","4","8">>,
      <<"4","2","9","4","9","6","7","2","9","4">>,
      <<"4","2","9","4","9","6","7","2","9","5">>,
      <<"4","2","9","4","9","6","7","2","9","6">>,
      <<"4","2","9","4","9","6","7","3","0","0">>,
      <<"4","2","9","4","9","6","7","2","9","5","0">>,
      <<"9","9","9","9","9","9","9","9","9","9","9","9">> }

CountInputs ==
    { h \o n \o t : h \in {<<>>, <<"_">>}, n \in CountNumerals,
                    t \in {<<>>, <<"_">>, <<"A">>, <<"_", "3">>} }

InitCount ==
    /\ arg_mangled \in CountInputs
    /\ arg_options = [style |-> "gnu", ansi |-> TRUE, params |-> TRUE, java |-> FALSE]
    /\ beyond = <<NUL>>
    /\ current_demangling_style = "gnu"
    /\ pc = "idle"
    /\ returned = NULLP
    /\ char_str = <<NUL, NUL>>
    /\ thread = <<>>

\* n = consume_count (&type)
ConsumeCount ==
    /\ pc = "idle"
    /\ thread' = <<call("consume_count", <<enter_v2(arg_mangled, arg_options, MaxSteps)>>)>>
    /\ pc' = "counted"
    /\ UNCHANGED <<arg_mangled, arg_options, beyond, current_demangling_style, returned,
                   char_str>>

\* idx = consume_count_with_underscores (&mangled)
ConsumeCountWithUnderscores ==
    /\ pc = "idle"
    /\ thread' = <<call("consume_count_with_underscores",
                          <<enter_v2(arg_mangled, arg_options, MaxSteps)>>)>>
    /\ pc' = "indexed"
    /\ UNCHANGED <<arg_mangled, arg_options, beyond, current_demangling_style, returned,
                   char_str>>

NextCount == ConsumeCount \/ ConsumeCountWithUnderscores

SpecCount == InitCount /\ [][NextCount]_vars

(* C27: consume_count returns -1 and consumes nothing when the cursor is not
   at a digit; when the digits overflow the 32-bit unsigned range it returns
   -1 with the cursor past all the remaining digits of the count; otherwise
   it returns the value with the cursor at the first non-digit. *)
\* the number of digits s starts with
RECURSIVE DigitRun(_)
DigitRun(s) == IF s # <<>> /\ Head(s) \in Digits THEN 1 + DigitRun(Tail(s)) ELSE 0

RECURSIVE Significant(_)
\* the digits d without the zeros they start with
Significant(d) == IF d # <<>> /\ Head(d) = "0" THEN Significant(Tail(d)) ELSE d

RECURSIVE NumeralAbove(_, _)
\* two numerals of the same length: d > e
NumeralAbove(d, e) ==
    IF d = <<>> THEN FALSE
    ELSE IF Head(d) # Head(e) THEN DigitVal(Head(d)) > DigitVal(Head(e))
    ELSE NumeralAbove(Tail(d), Tail(e))

Numeral_UT32_MAX == <<"4","2","9","4","9","6","7","2","9","5">>

\* the numeral d has a value above 2^32 - 1
AboveUT32(d) ==
    LET g == Significant(d) IN
    Len(g) > 10 \/ (Len(g) = 10 /\ NumeralAbove(g, Numeral_UT32_MAX))

RECURSIVE NumeralValue(_)
\* the value of a numeral of at most nine digits
NumeralValue(d) ==
    IF d = <<>> THEN 0 ELSE NumeralValue(SubSeq(d, 1, Len(d) - 1)) * 10 + DigitVal(d[Len(d)])

\* C27: what consume_count returns and where it leaves the cursor, in its
\* three cases
C27_ConsumeCountCases ==
    pc = "counted" =>
        LET run == DigitRun(arg_mangled)
            d == SubSeq(arg_mangled, 1, run)
            n == thread[1].n
            at == thread[1].w.m.i
        IN /\ run = 0 => (n = -1 /\ at = 1)
           /\ (run > 0 /\ AboveUT32(d)) => (n = -1 /\ at = run + 1)
           /\ (run > 0 /\ ~AboveUT32(d)) =>
                 (at = run + 1 /\ (Len(Significant(d)) <= 9 => n = NumeralValue(Significant(d))))

(* C28: consume_count and consume_count_with_underscores return -1 or a
   non-negative integer; a numeral with a value in (2^31 - 1, 2^32 - 1]
   gives no negative result other than -1. *)
C28_CountNeverBelowMinusOne == pc \in {"counted", "indexed"} => thread[1].n >= -1

(* C29: a do_arg that replays the cached argument consumes no input,
   appends the cached text and adds nothing to the type table; a do_arg
   that parses an argument replaces the cache and, unless remembering is
   suspended, adds exactly one entry to the type table. *)
Lit_int_int_char_char ==
    <<"f","(","i","n","t",","," ","i","n","t",","," ","c","h","a","r",","," ","c","h","a","r",")">>

\* C29: every do_arg of a call kept to its case, and a back reference after
\* a replay counts the parsed arguments only
C29_ReplayAndParseFrames ==
    Called =>
        /\ ~returned.work.misargued
        /\ (arg_mangled = <<"f","_","_","F","i","n","1","c","T","1">>
              /\ arg_options.style = "gnu" /\ arg_options.params /\ ~arg_options.java)
           => returned.ret = Lit_int_int_char_char

\* C29: 'int' was parsed, replayed once, 'char' was parsed and T1 named it
C29_Witness ==
    /\ pc = "done"
    /\ returned.work.replayed
    /\ arg_mangled = <<"f","_","_","F","i","n","1","c","T","1">>
    /\ returned.ret = Lit_int_int_char_char

(* C30: demangle_template reports success exactly when its header and every
   declared argument parsed; a template declared with 0 arguments succeeds
   with the argument list '<>'; the entry it reserved in btypevec is filled
   with the template's name only when it succeeded.  As stated: no call
   has a template of 0 arguments reported as failed, or an entry filled by
   a template that failed. *)
C30_TemplateSuccessExact ==
    Called => (~returned.work.noargs /\ ~returned.work.misfilled)

====
